---- MODULE Spec2Model ----
(***************************************************************************)
(* amplihack-logparse: the line parser, the file parser and the analyzers  *)
(* (timing, agent, pattern) over a session of parsed entries.              *)
(*                                                                         *)
(* Text is a sequence of one-character strings, so that starts_with, find, *)
(* trim and slicing are computed position by position as the code does.    *)
(* An instant is [days, secs, nanos] (chrono's DateTime<Utc>: the day, the  *)
(* second of the day and the nanosecond); a TimeDelta is [secs, nanos].    *)
(* Option<T> is <<>> for None and <<x>> for Some(x).  An f64 is an IEEE    *)
(* 754 binary64 value, a u32 or u64 the sequence of its 16-bit limbs.      *)
(***************************************************************************)
EXTENDS Integers, Sequences, FiniteSets, TLC

VARIABLES
    line,        \* the &str handed to parse_log_entry
    lineOut,     \* its ParseResult<LogEntry>, <<>> before the call
    file,        \* the file behind the path: absent, or its sequence of line reads
                 \* (for handle_analyze: the .log files found, in read_dir order)
    fileOut,     \* parse_log_file's result with the warnings written to stderr
                 \* (for handle_analyze: its result with the entries gathered)
    session,     \* the LogSession handed to an analyzer
    timing,      \* TimingAnalyzer::analyze's result, <<>> before the call
    agent_map,   \* AgentAnalyzer.agent_map
    lastEntries, \* the slice handed to the last process_entries call
    agents,      \* AgentAnalyzer::analyze's result, <<>> before the call
    thresholds,  \* the PatternAnalyzer's three fields
    patterns,    \* PatternAnalyzer::analyze's result, <<>> before the call
    previous,    \* what the caller kept of each analyzer's result before its last call
    overflow_checks, \* whether the build panics on an arithmetic overflow
    panicked     \* whether a call has panicked, which ends the run

vars == <<line, lineOut, file, fileOut, session, timing, agent_map,
          lastEntries, agents, thresholds, patterns, previous,
          overflow_checks, panicked>>

None == <<>>
Some(x) == <<x>>

(***************************************************************************)
(* str helpers.  A character is a string: itself where a TLA+ string can   *)
(* hold it (printable ASCII, the escapes \t \n \f \r, and the printable    *)
(* Latin-1 letters and signs U+00A1..U+00FF), and otherwise its code point *)
(* written "U+XXXX" (so "U+0131" is the dotless i and "U+2028" the line    *)
(* separator).                                                             *)
(***************************************************************************)
\* char::is_whitespace: the code points with the Unicode White_Space property
Whitespace ==
    {"\t", "\n", "U+000B", "\f", "\r", " ", "U+0085", "U+00A0", "U+1680",
     "U+2000", "U+2001", "U+2002", "U+2003", "U+2004", "U+2005", "U+2006",
     "U+2007", "U+2008", "U+2009", "U+200A", "U+2028", "U+2029", "U+202F",
     "U+205F", "U+3000"}

RECURSIVE TrimStart(_)
TrimStart(s) ==
    IF s = <<>> THEN s
    ELSE IF Head(s) \in Whitespace THEN TrimStart(Tail(s)) ELSE s

RECURSIVE TrimEnd(_)
TrimEnd(s) ==
    IF s = <<>> THEN s
    ELSE IF s[Len(s)] \in Whitespace THEN TrimEnd(SubSeq(s, 1, Len(s) - 1)) ELSE s

Trim(s) == TrimEnd(TrimStart(s))

StartsWith(s, c) == s # <<>> /\ s[1] = c

\* str::find(char): Some(0-based index of the first occurrence) or None
Find(s, c) ==
    IF \E i \in 1..Len(s) : s[i] = c
    THEN Some((CHOOSE i \in 1..Len(s) : s[i] = c /\ \A j \in 1..(i - 1) : s[j] # c) - 1)
    ELSE None

\* &s[from..to] with 0-based half-open bounds
Slice(s, from, to) == SubSeq(s, from + 1, to)

LowerCase == <<"a","b","c","d","e","f","g","h","i","j","k","l","m",
               "n","o","p","q","r","s","t","u","v","w","x","y","z">>
UpperCase == <<"A","B","C","D","E","F","G","H","I","J","K","L","M",
               "N","O","P","Q","R","S","T","U","V","W","X","Y","Z">>

\* the function a set of pairs <<argument, value>> gives
FnOfPairs(pairs) == [a \in {p[1] : p \in pairs} |-> (CHOOSE p \in pairs : p[1] = a)[2]]

\* char::to_uppercase outside ASCII: every character whose upper-case form
\* differs from it, with that form (one to three characters), as the Unicode
\* Character Database 17.0 gives it (UnicodeData.txt and the unconditional
\* mappings of SpecialCasing.txt)
SpecialUpper ==
  FnOfPairs(
    { <<"µ", <<"U+039C">>>>, <<"ß", <<"S", "S">>>>, <<"à", <<"À">>>>, <<"á", <<"Á">>>>,
     <<"â", <<"Â">>>>, <<"ã", <<"Ã">>>>, <<"ä", <<"Ä">>>>, <<"å", <<"Å">>>>, <<"æ", <<"Æ">>>>,
     <<"ç", <<"Ç">>>>, <<"è", <<"È">>>>, <<"é", <<"É">>>>, <<"ê", <<"Ê">>>>, <<"ë", <<"Ë">>>>,
     <<"ì", <<"Ì">>>>, <<"í", <<"Í">>>>, <<"î", <<"Î">>>>, <<"ï", <<"Ï">>>>, <<"ð", <<"Ð">>>>,
     <<"ñ", <<"Ñ">>>>, <<"ò", <<"Ò">>>>, <<"ó", <<"Ó">>>>, <<"ô", <<"Ô">>>>, <<"õ", <<"Õ">>>>,
     <<"ö", <<"Ö">>>>, <<"ø", <<"Ø">>>>, <<"ù", <<"Ù">>>>, <<"ú", <<"Ú">>>>, <<"û", <<"Û">>>>,
     <<"ü", <<"Ü">>>>, <<"ý", <<"Ý">>>>, <<"þ", <<"Þ">>>>, <<"ÿ", <<"U+0178">>>>,
     <<"U+0101", <<"U+0100">>>>, <<"U+0103", <<"U+0102">>>>, <<"U+0105", <<"U+0104">>>>,
     <<"U+0107", <<"U+0106">>>>, <<"U+0109", <<"U+0108">>>>, <<"U+010B", <<"U+010A">>>>,
     <<"U+010D", <<"U+010C">>>>, <<"U+010F", <<"U+010E">>>>, <<"U+0111", <<"U+0110">>>>,
     <<"U+0113", <<"U+0112">>>>, <<"U+0115", <<"U+0114">>>>, <<"U+0117", <<"U+0116">>>>,
     <<"U+0119", <<"U+0118">>>>, <<"U+011B", <<"U+011A">>>>, <<"U+011D", <<"U+011C">>>>,
     <<"U+011F", <<"U+011E">>>>, <<"U+0121", <<"U+0120">>>>, <<"U+0123", <<"U+0122">>>>,
     <<"U+0125", <<"U+0124">>>>, <<"U+0127", <<"U+0126">>>>, <<"U+0129", <<"U+0128">>>>,
     <<"U+012B", <<"U+012A">>>>, <<"U+012D", <<"U+012C">>>>, <<"U+012F", <<"U+012E">>>>,
     <<"U+0131", <<"I">>>>, <<"U+0133", <<"U+0132">>>>, <<"U+0135", <<"U+0134">>>>,
     <<"U+0137", <<"U+0136">>>>, <<"U+013A", <<"U+0139">>>>, <<"U+013C", <<"U+013B">>>>,
     <<"U+013E", <<"U+013D">>>>, <<"U+0140", <<"U+013F">>>>, <<"U+0142", <<"U+0141">>>>,
     <<"U+0144", <<"U+0143">>>>, <<"U+0146", <<"U+0145">>>>, <<"U+0148", <<"U+0147">>>>,
     <<"U+0149", <<"U+02BC", "N">>>>, <<"U+014B", <<"U+014A">>>>, <<"U+014D", <<"U+014C">>>>,
     <<"U+014F", <<"U+014E">>>>, <<"U+0151", <<"U+0150">>>>, <<"U+0153", <<"U+0152">>>>,
     <<"U+0155", <<"U+0154">>>>, <<"U+0157", <<"U+0156">>>>, <<"U+0159", <<"U+0158">>>>,
     <<"U+015B", <<"U+015A">>>>, <<"U+015D", <<"U+015C">>>>, <<"U+015F", <<"U+015E">>>>,
     <<"U+0161", <<"U+0160">>>>, <<"U+0163", <<"U+0162">>>>, <<"U+0165", <<"U+0164">>>>,
     <<"U+0167", <<"U+0166">>>>, <<"U+0169", <<"U+0168">>>>, <<"U+016B", <<"U+016A">>>>,
     <<"U+016D", <<"U+016C">>>>, <<"U+016F", <<"U+016E">>>>, <<"U+0171", <<"U+0170">>>>,
     <<"U+0173", <<"U+0172">>>>, <<"U+0175", <<"U+0174">>>>, <<"U+0177", <<"U+0176">>>>,
     <<"U+017A", <<"U+0179">>>>, <<"U+017C", <<"U+017B">>>>, <<"U+017E", <<"U+017D">>>>,
     <<"U+017F", <<"S">>>>, <<"U+0180", <<"U+0243">>>>, <<"U+0183", <<"U+0182">>>>,
     <<"U+0185", <<"U+0184">>>>, <<"U+0188", <<"U+0187">>>>, <<"U+018C", <<"U+018B">>>>,
     <<"U+0192", <<"U+0191">>>>, <<"U+0195", <<"U+01F6">>>>, <<"U+0199", <<"U+0198">>>>,
     <<"U+019A", <<"U+023D">>>>, <<"U+019E", <<"U+0220">>>>, <<"U+01A1", <<"U+01A0">>>>,
     <<"U+01A3", <<"U+01A2">>>>, <<"U+01A5", <<"U+01A4">>>>, <<"U+01A8", <<"U+01A7">>>>,
     <<"U+01AD", <<"U+01AC">>>>, <<"U+01B0", <<"U+01AF">>>>, <<"U+01B4", <<"U+01B3">>>>,
     <<"U+01B6", <<"U+01B5">>>>, <<"U+01B9", <<"U+01B8">>>>, <<"U+01BD", <<"U+01BC">>>>,
     <<"U+01BF", <<"U+01F7">>>>, <<"U+01C5", <<"U+01C4">>>>, <<"U+01C6", <<"U+01C4">>>>,
     <<"U+01C8", <<"U+01C7">>>>, <<"U+01C9", <<"U+01C7">>>>, <<"U+01CB", <<"U+01CA">>>>,
     <<"U+01CC", <<"U+01CA">>>>, <<"U+01CE", <<"U+01CD">>>>, <<"U+01D0", <<"U+01CF">>>>,
     <<"U+01D2", <<"U+01D1">>>>, <<"U+01D4", <<"U+01D3">>>>, <<"U+01D6", <<"U+01D5">>>>,
     <<"U+01D8", <<"U+01D7">>>>, <<"U+01DA", <<"U+01D9">>>>, <<"U+01DC", <<"U+01DB">>>>,
     <<"U+01DD", <<"U+018E">>>>, <<"U+01DF", <<"U+01DE">>>>, <<"U+01E1", <<"U+01E0">>>>,
     <<"U+01E3", <<"U+01E2">>>>, <<"U+01E5", <<"U+01E4">>>>, <<"U+01E7", <<"U+01E6">>>>,
     <<"U+01E9", <<"U+01E8">>>>, <<"U+01EB", <<"U+01EA">>>>, <<"U+01ED", <<"U+01EC">>>>,
     <<"U+01EF", <<"U+01EE">>>>, <<"U+01F0", <<"J", "U+030C">>>>, <<"U+01F2", <<"U+01F1">>>>,
     <<"U+01F3", <<"U+01F1">>>>, <<"U+01F5", <<"U+01F4">>>>, <<"U+01F9", <<"U+01F8">>>>,
     <<"U+01FB", <<"U+01FA">>>>, <<"U+01FD", <<"U+01FC">>>>, <<"U+01FF", <<"U+01FE">>>>,
     <<"U+0201", <<"U+0200">>>>, <<"U+0203", <<"U+0202">>>>, <<"U+0205", <<"U+0204">>>>,
     <<"U+0207", <<"U+0206">>>>, <<"U+0209", <<"U+0208">>>>, <<"U+020B", <<"U+020A">>>>,
     <<"U+020D", <<"U+020C">>>>, <<"U+020F", <<"U+020E">>>>, <<"U+0211", <<"U+0210">>>>,
     <<"U+0213", <<"U+0212">>>>, <<"U+0215", <<"U+0214">>>>, <<"U+0217", <<"U+0216">>>>,
     <<"U+0219", <<"U+0218">>>>, <<"U+021B", <<"U+021A">>>>, <<"U+021D", <<"U+021C">>>>,
     <<"U+021F", <<"U+021E">>>>, <<"U+0223", <<"U+0222">>>>, <<"U+0225", <<"U+0224">>>>,
     <<"U+0227", <<"U+0226">>>>, <<"U+0229", <<"U+0228">>>>, <<"U+022B", <<"U+022A">>>>,
     <<"U+022D", <<"U+022C">>>>, <<"U+022F", <<"U+022E">>>>, <<"U+0231", <<"U+0230">>>>,
     <<"U+0233", <<"U+0232">>>>, <<"U+023C", <<"U+023B">>>>, <<"U+023F", <<"U+2C7E">>>>,
     <<"U+0240", <<"U+2C7F">>>>, <<"U+0242", <<"U+0241">>>>, <<"U+0247", <<"U+0246">>>>,
     <<"U+0249", <<"U+0248">>>>, <<"U+024B", <<"U+024A">>>>, <<"U+024D", <<"U+024C">>>>,
     <<"U+024F", <<"U+024E">>>>, <<"U+0250", <<"U+2C6F">>>>, <<"U+0251", <<"U+2C6D">>>>,
     <<"U+0252", <<"U+2C70">>>>, <<"U+0253", <<"U+0181">>>>, <<"U+0254", <<"U+0186">>>>,
     <<"U+0256", <<"U+0189">>>>, <<"U+0257", <<"U+018A">>>>, <<"U+0259", <<"U+018F">>>>,
     <<"U+025B", <<"U+0190">>>>, <<"U+025C", <<"U+A7AB">>>>, <<"U+0260", <<"U+0193">>>>,
     <<"U+0261", <<"U+A7AC">>>>, <<"U+0263", <<"U+0194">>>>, <<"U+0265", <<"U+A78D">>>>,
     <<"U+0266", <<"U+A7AA">>>>, <<"U+0268", <<"U+0197">>>>, <<"U+0269", <<"U+0196">>>>,
     <<"U+026A", <<"U+A7AE">>>>, <<"U+026B", <<"U+2C62">>>>, <<"U+026C", <<"U+A7AD">>>>,
     <<"U+026F", <<"U+019C">>>>, <<"U+0271", <<"U+2C6E">>>>, <<"U+0272", <<"U+019D">>>>,
     <<"U+0275", <<"U+019F">>>>, <<"U+027D", <<"U+2C64">>>>, <<"U+0280", <<"U+01A6">>>>,
     <<"U+0282", <<"U+A7C5">>>>, <<"U+0283", <<"U+01A9">>>>, <<"U+0287", <<"U+A7B1">>>>,
     <<"U+0288", <<"U+01AE">>>>, <<"U+0289", <<"U+0244">>>>, <<"U+028A", <<"U+01B1">>>>,
     <<"U+028B", <<"U+01B2">>>>, <<"U+028C", <<"U+0245">>>>, <<"U+0292", <<"U+01B7">>>>,
     <<"U+029D", <<"U+A7B2">>>>, <<"U+029E", <<"U+A7B0">>>>, <<"U+0345", <<"U+0399">>>>,
     <<"U+0371", <<"U+0370">>>>, <<"U+0373", <<"U+0372">>>>, <<"U+0377", <<"U+0376">>>>,
     <<"U+037B", <<"U+03FD">>>>, <<"U+037C", <<"U+03FE">>>>, <<"U+037D", <<"U+03FF">>>>,
     <<"U+0390", <<"U+0399", "U+0308", "U+0301">>>>, <<"U+03AC", <<"U+0386">>>>,
     <<"U+03AD", <<"U+0388">>>>, <<"U+03AE", <<"U+0389">>>>, <<"U+03AF", <<"U+038A">>>>,
     <<"U+03B0", <<"U+03A5", "U+0308", "U+0301">>>>, <<"U+03B1", <<"U+0391">>>>,
     <<"U+03B2", <<"U+0392">>>>, <<"U+03B3", <<"U+0393">>>>, <<"U+03B4", <<"U+0394">>>>,
     <<"U+03B5", <<"U+0395">>>>, <<"U+03B6", <<"U+0396">>>>, <<"U+03B7", <<"U+0397">>>>,
     <<"U+03B8", <<"U+0398">>>>, <<"U+03B9", <<"U+0399">>>>, <<"U+03BA", <<"U+039A">>>>,
     <<"U+03BB", <<"U+039B">>>>, <<"U+03BC", <<"U+039C">>>>, <<"U+03BD", <<"U+039D">>>>,
     <<"U+03BE", <<"U+039E">>>>, <<"U+03BF", <<"U+039F">>>>, <<"U+03C0", <<"U+03A0">>>>,
     <<"U+03C1", <<"U+03A1">>>>, <<"U+03C2", <<"U+03A3">>>>, <<"U+03C3", <<"U+03A3">>>>,
     <<"U+03C4", <<"U+03A4">>>>, <<"U+03C5", <<"U+03A5">>>>, <<"U+03C6", <<"U+03A6">>>>,
     <<"U+03C7", <<"U+03A7">>>>, <<"U+03C8", <<"U+03A8">>>>, <<"U+03C9", <<"U+03A9">>>>,
     <<"U+03CA", <<"U+03AA">>>>, <<"U+03CB", <<"U+03AB">>>>, <<"U+03CC", <<"U+038C">>>>,
     <<"U+03CD", <<"U+038E">>>>, <<"U+03CE", <<"U+038F">>>>, <<"U+03D0", <<"U+0392">>>>,
     <<"U+03D1", <<"U+0398">>>>, <<"U+03D5", <<"U+03A6">>>>, <<"U+03D6", <<"U+03A0">>>>,
     <<"U+03D7", <<"U+03CF">>>>, <<"U+03D9", <<"U+03D8">>>>, <<"U+03DB", <<"U+03DA">>>>,
     <<"U+03DD", <<"U+03DC">>>>, <<"U+03DF", <<"U+03DE">>>>, <<"U+03E1", <<"U+03E0">>>>,
     <<"U+03E3", <<"U+03E2">>>>, <<"U+03E5", <<"U+03E4">>>>, <<"U+03E7", <<"U+03E6">>>>,
     <<"U+03E9", <<"U+03E8">>>>, <<"U+03EB", <<"U+03EA">>>>, <<"U+03ED", <<"U+03EC">>>>,
     <<"U+03EF", <<"U+03EE">>>>, <<"U+03F0", <<"U+039A">>>>, <<"U+03F1", <<"U+03A1">>>>,
     <<"U+03F2", <<"U+03F9">>>>, <<"U+03F3", <<"U+037F">>>>, <<"U+03F5", <<"U+0395">>>>,
     <<"U+03F8", <<"U+03F7">>>>, <<"U+03FB", <<"U+03FA">>>>, <<"U+0430", <<"U+0410">>>>,
     <<"U+0431", <<"U+0411">>>>, <<"U+0432", <<"U+0412">>>>, <<"U+0433", <<"U+0413">>>>,
     <<"U+0434", <<"U+0414">>>>, <<"U+0435", <<"U+0415">>>>, <<"U+0436", <<"U+0416">>>>,
     <<"U+0437", <<"U+0417">>>>, <<"U+0438", <<"U+0418">>>>, <<"U+0439", <<"U+0419">>>>,
     <<"U+043A", <<"U+041A">>>>, <<"U+043B", <<"U+041B">>>>, <<"U+043C", <<"U+041C">>>>,
     <<"U+043D", <<"U+041D">>>>, <<"U+043E", <<"U+041E">>>>, <<"U+043F", <<"U+041F">>>>,
     <<"U+0440", <<"U+0420">>>>, <<"U+0441", <<"U+0421">>>>, <<"U+0442", <<"U+0422">>>>,
     <<"U+0443", <<"U+0423">>>>, <<"U+0444", <<"U+0424">>>>, <<"U+0445", <<"U+0425">>>>,
     <<"U+0446", <<"U+0426">>>>, <<"U+0447", <<"U+0427">>>>, <<"U+0448", <<"U+0428">>>>,
     <<"U+0449", <<"U+0429">>>>, <<"U+044A", <<"U+042A">>>>, <<"U+044B", <<"U+042B">>>>,
     <<"U+044C", <<"U+042C">>>>, <<"U+044D", <<"U+042D">>>>, <<"U+044E", <<"U+042E">>>>,
     <<"U+044F", <<"U+042F">>>>, <<"U+0450", <<"U+0400">>>>, <<"U+0451", <<"U+0401">>>>,
     <<"U+0452", <<"U+0402">>>>, <<"U+0453", <<"U+0403">>>>, <<"U+0454", <<"U+0404">>>>,
     <<"U+0455", <<"U+0405">>>>, <<"U+0456", <<"U+0406">>>>, <<"U+0457", <<"U+0407">>>>,
     <<"U+0458", <<"U+0408">>>>, <<"U+0459", <<"U+0409">>>>, <<"U+045A", <<"U+040A">>>>,
     <<"U+045B", <<"U+040B">>>>, <<"U+045C", <<"U+040C">>>>, <<"U+045D", <<"U+040D">>>>,
     <<"U+045E", <<"U+040E">>>>, <<"U+045F", <<"U+040F">>>>, <<"U+0461", <<"U+0460">>>>,
     <<"U+0463", <<"U+0462">>>>, <<"U+0465", <<"U+0464">>>>, <<"U+0467", <<"U+0466">>>>,
     <<"U+0469", <<"U+0468">>>>, <<"U+046B", <<"U+046A">>>>, <<"U+046D", <<"U+046C">>>>,
     <<"U+046F", <<"U+046E">>>>, <<"U+0471", <<"U+0470">>>>, <<"U+0473", <<"U+0472">>>>,
     <<"U+0475", <<"U+0474">>>>, <<"U+0477", <<"U+0476">>>>, <<"U+0479", <<"U+0478">>>>,
     <<"U+047B", <<"U+047A">>>>, <<"U+047D", <<"U+047C">>>>, <<"U+047F", <<"U+047E">>>>,
     <<"U+0481", <<"U+0480">>>>, <<"U+048B", <<"U+048A">>>>, <<"U+048D", <<"U+048C">>>>,
     <<"U+048F", <<"U+048E">>>>, <<"U+0491", <<"U+0490">>>>, <<"U+0493", <<"U+0492">>>>,
     <<"U+0495", <<"U+0494">>>>, <<"U+0497", <<"U+0496">>>>, <<"U+0499", <<"U+0498">>>>,
     <<"U+049B", <<"U+049A">>>>, <<"U+049D", <<"U+049C">>>>, <<"U+049F", <<"U+049E">>>>,
     <<"U+04A1", <<"U+04A0">>>>, <<"U+04A3", <<"U+04A2">>>>, <<"U+04A5", <<"U+04A4">>>>,
     <<"U+04A7", <<"U+04A6">>>>, <<"U+04A9", <<"U+04A8">>>>, <<"U+04AB", <<"U+04AA">>>>,
     <<"U+04AD", <<"U+04AC">>>>, <<"U+04AF", <<"U+04AE">>>>, <<"U+04B1", <<"U+04B0">>>>,
     <<"U+04B3", <<"U+04B2">>>>, <<"U+04B5", <<"U+04B4">>>>, <<"U+04B7", <<"U+04B6">>>>,
     <<"U+04B9", <<"U+04B8">>>>, <<"U+04BB", <<"U+04BA">>>>, <<"U+04BD", <<"U+04BC">>>>,
     <<"U+04BF", <<"U+04BE">>>>, <<"U+04C2", <<"U+04C1">>>>, <<"U+04C4", <<"U+04C3">>>>,
     <<"U+04C6", <<"U+04C5">>>>, <<"U+04C8", <<"U+04C7">>>>, <<"U+04CA", <<"U+04C9">>>>,
     <<"U+04CC", <<"U+04CB">>>>, <<"U+04CE", <<"U+04CD">>>>, <<"U+04CF", <<"U+04C0">>>>,
     <<"U+04D1", <<"U+04D0">>>>, <<"U+04D3", <<"U+04D2">>>>, <<"U+04D5", <<"U+04D4">>>>,
     <<"U+04D7", <<"U+04D6">>>>, <<"U+04D9", <<"U+04D8">>>>, <<"U+04DB", <<"U+04DA">>>>,
     <<"U+04DD", <<"U+04DC">>>>, <<"U+04DF", <<"U+04DE">>>>, <<"U+04E1", <<"U+04E0">>>>,
     <<"U+04E3", <<"U+04E2">>>>, <<"U+04E5", <<"U+04E4">>>>, <<"U+04E7", <<"U+04E6">>>>,
     <<"U+04E9", <<"U+04E8">>>>, <<"U+04EB", <<"U+04EA">>>>, <<"U+04ED", <<"U+04EC">>>>,
     <<"U+04EF", <<"U+04EE">>>>, <<"U+04F1", <<"U+04F0">>>>, <<"U+04F3", <<"U+04F2">>>>,
     <<"U+04F5", <<"U+04F4">>>>, <<"U+04F7", <<"U+04F6">>>>, <<"U+04F9", <<"U+04F8">>>>,
     <<"U+04FB", <<"U+04FA">>>>, <<"U+04FD", <<"U+04FC">>>>, <<"U+04FF", <<"U+04FE">>>>,
     <<"U+0501", <<"U+0500">>>>, <<"U+0503", <<"U+0502">>>>, <<"U+0505", <<"U+0504">>>>,
     <<"U+0507", <<"U+0506">>>>, <<"U+0509", <<"U+0508">>>>, <<"U+050B", <<"U+050A">>>>,
     <<"U+050D", <<"U+050C">>>>, <<"U+050F", <<"U+050E">>>>, <<"U+0511", <<"U+0510">>>>,
     <<"U+0513", <<"U+0512">>>>, <<"U+0515", <<"U+0514">>>>, <<"U+0517", <<"U+0516">>>>,
     <<"U+0519", <<"U+0518">>>>, <<"U+051B", <<"U+051A">>>>, <<"U+051D", <<"U+051C">>>>,
     <<"U+051F", <<"U+051E">>>>, <<"U+0521", <<"U+0520">>>>, <<"U+0523", <<"U+0522">>>>,
     <<"U+0525", <<"U+0524">>>>, <<"U+0527", <<"U+0526">>>>, <<"U+0529", <<"U+0528">>>>,
     <<"U+052B", <<"U+052A">>>>, <<"U+052D", <<"U+052C">>>>, <<"U+052F", <<"U+052E">>>>,
     <<"U+0561", <<"U+0531">>>>, <<"U+0562", <<"U+0532">>>>, <<"U+0563", <<"U+0533">>>>,
     <<"U+0564", <<"U+0534">>>>, <<"U+0565", <<"U+0535">>>>, <<"U+0566", <<"U+0536">>>>,
     <<"U+0567", <<"U+0537">>>>, <<"U+0568", <<"U+0538">>>>, <<"U+0569", <<"U+0539">>>>,
     <<"U+056A", <<"U+053A">>>>, <<"U+056B", <<"U+053B">>>>, <<"U+056C", <<"U+053C">>>>,
     <<"U+056D", <<"U+053D">>>>, <<"U+056E", <<"U+053E">>>>, <<"U+056F", <<"U+053F">>>>,
     <<"U+0570", <<"U+0540">>>>, <<"U+0571", <<"U+0541">>>>, <<"U+0572", <<"U+0542">>>>,
     <<"U+0573", <<"U+0543">>>>, <<"U+0574", <<"U+0544">>>>, <<"U+0575", <<"U+0545">>>>,
     <<"U+0576", <<"U+0546">>>>, <<"U+0577", <<"U+0547">>>>, <<"U+0578", <<"U+0548">>>>,
     <<"U+0579", <<"U+0549">>>>, <<"U+057A", <<"U+054A">>>>, <<"U+057B", <<"U+054B">>>>,
     <<"U+057C", <<"U+054C">>>>, <<"U+057D", <<"U+054D">>>>, <<"U+057E", <<"U+054E">>>>,
     <<"U+057F", <<"U+054F">>>>, <<"U+0580", <<"U+0550">>>>, <<"U+0581", <<"U+0551">>>>,
     <<"U+0582", <<"U+0552">>>>, <<"U+0583", <<"U+0553">>>>, <<"U+0584", <<"U+0554">>>>,
     <<"U+0585", <<"U+0555">>>>, <<"U+0586", <<"U+0556">>>>,
     <<"U+0587", <<"U+0535", "U+0552">>>>, <<"U+10D0", <<"U+1C90">>>>,
     <<"U+10D1", <<"U+1C91">>>>, <<"U+10D2", <<"U+1C92">>>>, <<"U+10D3", <<"U+1C93">>>>,
     <<"U+10D4", <<"U+1C94">>>>, <<"U+10D5", <<"U+1C95">>>>, <<"U+10D6", <<"U+1C96">>>>,
     <<"U+10D7", <<"U+1C97">>>>, <<"U+10D8", <<"U+1C98">>>>, <<"U+10D9", <<"U+1C99">>>>,
     <<"U+10DA", <<"U+1C9A">>>>, <<"U+10DB", <<"U+1C9B">>>>, <<"U+10DC", <<"U+1C9C">>>>,
     <<"U+10DD", <<"U+1C9D">>>>, <<"U+10DE", <<"U+1C9E">>>>, <<"U+10DF", <<"U+1C9F">>>>,
     <<"U+10E0", <<"U+1CA0">>>>, <<"U+10E1", <<"U+1CA1">>>>, <<"U+10E2", <<"U+1CA2">>>>,
     <<"U+10E3", <<"U+1CA3">>>>, <<"U+10E4", <<"U+1CA4">>>>, <<"U+10E5", <<"U+1CA5">>>>,
     <<"U+10E6", <<"U+1CA6">>>>, <<"U+10E7", <<"U+1CA7">>>>, <<"U+10E8", <<"U+1CA8">>>>,
     <<"U+10E9", <<"U+1CA9">>>>, <<"U+10EA", <<"U+1CAA">>>>, <<"U+10EB", <<"U+1CAB">>>>,
     <<"U+10EC", <<"U+1CAC">>>>, <<"U+10ED", <<"U+1CAD">>>>, <<"U+10EE", <<"U+1CAE">>>>,
     <<"U+10EF", <<"U+1CAF">>>>, <<"U+10F0", <<"U+1CB0">>>>, <<"U+10F1", <<"U+1CB1">>>>,
     <<"U+10F2", <<"U+1CB2">>>>, <<"U+10F3", <<"U+1CB3">>>>, <<"U+10F4", <<"U+1CB4">>>>,
     <<"U+10F5", <<"U+1CB5">>>>, <<"U+10F6", <<"U+1CB6">>>>, <<"U+10F7", <<"U+1CB7">>>>,
     <<"U+10F8", <<"U+1CB8">>>>, <<"U+10F9", <<"U+1CB9">>>>, <<"U+10FA", <<"U+1CBA">>>>,
     <<"U+10FD", <<"U+1CBD">>>>, <<"U+10FE", <<"U+1CBE">>>>, <<"U+10FF", <<"U+1CBF">>>>,
     <<"U+13F8", <<"U+13F0">>>>, <<"U+13F9", <<"U+13F1">>>>, <<"U+13FA", <<"U+13F2">>>>,
     <<"U+13FB", <<"U+13F3">>>>, <<"U+13FC", <<"U+13F4">>>>, <<"U+13FD", <<"U+13F5">>>>,
     <<"U+1C80", <<"U+0412">>>>, <<"U+1C81", <<"U+0414">>>>, <<"U+1C82", <<"U+041E">>>>,
     <<"U+1C83", <<"U+0421">>>>, <<"U+1C84", <<"U+0422">>>>, <<"U+1C85", <<"U+0422">>>>,
     <<"U+1C86", <<"U+042A">>>>, <<"U+1C87", <<"U+0462">>>>, <<"U+1C88", <<"U+A64A">>>>,
     <<"U+1D79", <<"U+A77D">>>>, <<"U+1D7D", <<"U+2C63">>>>, <<"U+1D8E", <<"U+A7C6">>>>,
     <<"U+1E01", <<"U+1E00">>>>, <<"U+1E03", <<"U+1E02">>>>, <<"U+1E05", <<"U+1E04">>>>,
     <<"U+1E07", <<"U+1E06">>>>, <<"U+1E09", <<"U+1E08">>>>, <<"U+1E0B", <<"U+1E0A">>>>,
     <<"U+1E0D", <<"U+1E0C">>>>, <<"U+1E0F", <<"U+1E0E">>>>, <<"U+1E11", <<"U+1E10">>>>,
     <<"U+1E13", <<"U+1E12">>>>, <<"U+1E15", <<"U+1E14">>>>, <<"U+1E17", <<"U+1E16">>>>,
     <<"U+1E19", <<"U+1E18">>>>, <<"U+1E1B", <<"U+1E1A">>>>, <<"U+1E1D", <<"U+1E1C">>>>,
     <<"U+1E1F", <<"U+1E1E">>>>, <<"U+1E21", <<"U+1E20">>>>, <<"U+1E23", <<"U+1E22">>>>,
     <<"U+1E25", <<"U+1E24">>>>, <<"U+1E27", <<"U+1E26">>>>, <<"U+1E29", <<"U+1E28">>>>,
     <<"U+1E2B", <<"U+1E2A">>>>, <<"U+1E2D", <<"U+1E2C">>>>, <<"U+1E2F", <<"U+1E2E">>>>,
     <<"U+1E31", <<"U+1E30">>>>, <<"U+1E33", <<"U+1E32">>>>, <<"U+1E35", <<"U+1E34">>>>,
     <<"U+1E37", <<"U+1E36">>>>, <<"U+1E39", <<"U+1E38">>>>, <<"U+1E3B", <<"U+1E3A">>>>,
     <<"U+1E3D", <<"U+1E3C">>>>, <<"U+1E3F", <<"U+1E3E">>>>, <<"U+1E41", <<"U+1E40">>>>,
     <<"U+1E43", <<"U+1E42">>>>, <<"U+1E45", <<"U+1E44">>>>, <<"U+1E47", <<"U+1E46">>>>,
     <<"U+1E49", <<"U+1E48">>>>, <<"U+1E4B", <<"U+1E4A">>>>, <<"U+1E4D", <<"U+1E4C">>>>,
     <<"U+1E4F", <<"U+1E4E">>>>, <<"U+1E51", <<"U+1E50">>>>, <<"U+1E53", <<"U+1E52">>>>,
     <<"U+1E55", <<"U+1E54">>>>, <<"U+1E57", <<"U+1E56">>>>, <<"U+1E59", <<"U+1E58">>>>,
     <<"U+1E5B", <<"U+1E5A">>>>, <<"U+1E5D", <<"U+1E5C">>>>, <<"U+1E5F", <<"U+1E5E">>>>,
     <<"U+1E61", <<"U+1E60">>>>, <<"U+1E63", <<"U+1E62">>>>, <<"U+1E65", <<"U+1E64">>>>,
     <<"U+1E67", <<"U+1E66">>>>, <<"U+1E69", <<"U+1E68">>>>, <<"U+1E6B", <<"U+1E6A">>>>,
     <<"U+1E6D", <<"U+1E6C">>>>, <<"U+1E6F", <<"U+1E6E">>>>, <<"U+1E71", <<"U+1E70">>>>,
     <<"U+1E73", <<"U+1E72">>>>, <<"U+1E75", <<"U+1E74">>>>, <<"U+1E77", <<"U+1E76">>>>,
     <<"U+1E79", <<"U+1E78">>>>, <<"U+1E7B", <<"U+1E7A">>>>, <<"U+1E7D", <<"U+1E7C">>>>,
     <<"U+1E7F", <<"U+1E7E">>>>, <<"U+1E81", <<"U+1E80">>>>, <<"U+1E83", <<"U+1E82">>>>,
     <<"U+1E85", <<"U+1E84">>>>, <<"U+1E87", <<"U+1E86">>>>, <<"U+1E89", <<"U+1E88">>>>,
     <<"U+1E8B", <<"U+1E8A">>>>, <<"U+1E8D", <<"U+1E8C">>>>, <<"U+1E8F", <<"U+1E8E">>>>,
     <<"U+1E91", <<"U+1E90">>>>, <<"U+1E93", <<"U+1E92">>>>, <<"U+1E95", <<"U+1E94">>>>,
     <<"U+1E96", <<"H", "U+0331">>>>, <<"U+1E97", <<"T", "U+0308">>>>,
     <<"U+1E98", <<"W", "U+030A">>>>, <<"U+1E99", <<"Y", "U+030A">>>>,
     <<"U+1E9A", <<"A", "U+02BE">>>>, <<"U+1E9B", <<"U+1E60">>>>, <<"U+1EA1", <<"U+1EA0">>>>,
     <<"U+1EA3", <<"U+1EA2">>>>, <<"U+1EA5", <<"U+1EA4">>>>, <<"U+1EA7", <<"U+1EA6">>>>,
     <<"U+1EA9", <<"U+1EA8">>>>, <<"U+1EAB", <<"U+1EAA">>>>, <<"U+1EAD", <<"U+1EAC">>>>,
     <<"U+1EAF", <<"U+1EAE">>>>, <<"U+1EB1", <<"U+1EB0">>>>, <<"U+1EB3", <<"U+1EB2">>>>,
     <<"U+1EB5", <<"U+1EB4">>>>, <<"U+1EB7", <<"U+1EB6">>>>, <<"U+1EB9", <<"U+1EB8">>>>,
     <<"U+1EBB", <<"U+1EBA">>>>, <<"U+1EBD", <<"U+1EBC">>>>, <<"U+1EBF", <<"U+1EBE">>>>,
     <<"U+1EC1", <<"U+1EC0">>>>, <<"U+1EC3", <<"U+1EC2">>>>, <<"U+1EC5", <<"U+1EC4">>>>,
     <<"U+1EC7", <<"U+1EC6">>>>, <<"U+1EC9", <<"U+1EC8">>>>, <<"U+1ECB", <<"U+1ECA">>>>,
     <<"U+1ECD", <<"U+1ECC">>>>, <<"U+1ECF", <<"U+1ECE">>>>, <<"U+1ED1", <<"U+1ED0">>>>,
     <<"U+1ED3", <<"U+1ED2">>>>, <<"U+1ED5", <<"U+1ED4">>>>, <<"U+1ED7", <<"U+1ED6">>>>,
     <<"U+1ED9", <<"U+1ED8">>>>, <<"U+1EDB", <<"U+1EDA">>>>, <<"U+1EDD", <<"U+1EDC">>>>,
     <<"U+1EDF", <<"U+1EDE">>>>, <<"U+1EE1", <<"U+1EE0">>>>, <<"U+1EE3", <<"U+1EE2">>>>,
     <<"U+1EE5", <<"U+1EE4">>>>, <<"U+1EE7", <<"U+1EE6">>>>, <<"U+1EE9", <<"U+1EE8">>>>,
     <<"U+1EEB", <<"U+1EEA">>>>, <<"U+1EED", <<"U+1EEC">>>>, <<"U+1EEF", <<"U+1EEE">>>>,
     <<"U+1EF1", <<"U+1EF0">>>>, <<"U+1EF3", <<"U+1EF2">>>>, <<"U+1EF5", <<"U+1EF4">>>>,
     <<"U+1EF7", <<"U+1EF6">>>>, <<"U+1EF9", <<"U+1EF8">>>>, <<"U+1EFB", <<"U+1EFA">>>>,
     <<"U+1EFD", <<"U+1EFC">>>>, <<"U+1EFF", <<"U+1EFE">>>>, <<"U+1F00", <<"U+1F08">>>>,
     <<"U+1F01", <<"U+1F09">>>>, <<"U+1F02", <<"U+1F0A">>>>, <<"U+1F03", <<"U+1F0B">>>>,
     <<"U+1F04", <<"U+1F0C">>>>, <<"U+1F05", <<"U+1F0D">>>>, <<"U+1F06", <<"U+1F0E">>>>,
     <<"U+1F07", <<"U+1F0F">>>>, <<"U+1F10", <<"U+1F18">>>>, <<"U+1F11", <<"U+1F19">>>>,
     <<"U+1F12", <<"U+1F1A">>>>, <<"U+1F13", <<"U+1F1B">>>>, <<"U+1F14", <<"U+1F1C">>>>,
     <<"U+1F15", <<"U+1F1D">>>>, <<"U+1F20", <<"U+1F28">>>>, <<"U+1F21", <<"U+1F29">>>>,
     <<"U+1F22", <<"U+1F2A">>>>, <<"U+1F23", <<"U+1F2B">>>>, <<"U+1F24", <<"U+1F2C">>>>,
     <<"U+1F25", <<"U+1F2D">>>>, <<"U+1F26", <<"U+1F2E">>>>, <<"U+1F27", <<"U+1F2F">>>>,
     <<"U+1F30", <<"U+1F38">>>>, <<"U+1F31", <<"U+1F39">>>>, <<"U+1F32", <<"U+1F3A">>>>,
     <<"U+1F33", <<"U+1F3B">>>>, <<"U+1F34", <<"U+1F3C">>>>, <<"U+1F35", <<"U+1F3D">>>>,
     <<"U+1F36", <<"U+1F3E">>>>, <<"U+1F37", <<"U+1F3F">>>>, <<"U+1F40", <<"U+1F48">>>>,
     <<"U+1F41", <<"U+1F49">>>>, <<"U+1F42", <<"U+1F4A">>>>, <<"U+1F43", <<"U+1F4B">>>>,
     <<"U+1F44", <<"U+1F4C">>>>, <<"U+1F45", <<"U+1F4D">>>>,
     <<"U+1F50", <<"U+03A5", "U+0313">>>>, <<"U+1F51", <<"U+1F59">>>>,
     <<"U+1F52", <<"U+03A5", "U+0313", "U+0300">>>>, <<"U+1F53", <<"U+1F5B">>>>,
     <<"U+1F54", <<"U+03A5", "U+0313", "U+0301">>>>, <<"U+1F55", <<"U+1F5D">>>>,
     <<"U+1F56", <<"U+03A5", "U+0313", "U+0342">>>>, <<"U+1F57", <<"U+1F5F">>>>,
     <<"U+1F60", <<"U+1F68">>>>, <<"U+1F61", <<"U+1F69">>>>, <<"U+1F62", <<"U+1F6A">>>>,
     <<"U+1F63", <<"U+1F6B">>>>, <<"U+1F64", <<"U+1F6C">>>>, <<"U+1F65", <<"U+1F6D">>>>,
     <<"U+1F66", <<"U+1F6E">>>>, <<"U+1F67", <<"U+1F6F">>>>, <<"U+1F70", <<"U+1FBA">>>>,
     <<"U+1F71", <<"U+1FBB">>>>, <<"U+1F72", <<"U+1FC8">>>>, <<"U+1F73", <<"U+1FC9">>>>,
     <<"U+1F74", <<"U+1FCA">>>>, <<"U+1F75", <<"U+1FCB">>>>, <<"U+1F76", <<"U+1FDA">>>>,
     <<"U+1F77", <<"U+1FDB">>>>, <<"U+1F78", <<"U+1FF8">>>>, <<"U+1F79", <<"U+1FF9">>>>,
     <<"U+1F7A", <<"U+1FEA">>>>, <<"U+1F7B", <<"U+1FEB">>>>, <<"U+1F7C", <<"U+1FFA">>>>,
     <<"U+1F7D", <<"U+1FFB">>>>, <<"U+1F80", <<"U+1F08", "U+0399">>>>,
     <<"U+1F81", <<"U+1F09", "U+0399">>>>, <<"U+1F82", <<"U+1F0A", "U+0399">>>>,
     <<"U+1F83", <<"U+1F0B", "U+0399">>>>, <<"U+1F84", <<"U+1F0C", "U+0399">>>>,
     <<"U+1F85", <<"U+1F0D", "U+0399">>>>, <<"U+1F86", <<"U+1F0E", "U+0399">>>>,
     <<"U+1F87", <<"U+1F0F", "U+0399">>>>, <<"U+1F88", <<"U+1F08", "U+0399">>>>,
     <<"U+1F89", <<"U+1F09", "U+0399">>>>, <<"U+1F8A", <<"U+1F0A", "U+0399">>>>,
     <<"U+1F8B", <<"U+1F0B", "U+0399">>>>, <<"U+1F8C", <<"U+1F0C", "U+0399">>>>,
     <<"U+1F8D", <<"U+1F0D", "U+0399">>>>, <<"U+1F8E", <<"U+1F0E", "U+0399">>>>,
     <<"U+1F8F", <<"U+1F0F", "U+0399">>>>, <<"U+1F90", <<"U+1F28", "U+0399">>>>,
     <<"U+1F91", <<"U+1F29", "U+0399">>>>, <<"U+1F92", <<"U+1F2A", "U+0399">>>>,
     <<"U+1F93", <<"U+1F2B", "U+0399">>>>, <<"U+1F94", <<"U+1F2C", "U+0399">>>>,
     <<"U+1F95", <<"U+1F2D", "U+0399">>>>, <<"U+1F96", <<"U+1F2E", "U+0399">>>>,
     <<"U+1F97", <<"U+1F2F", "U+0399">>>>, <<"U+1F98", <<"U+1F28", "U+0399">>>>,
     <<"U+1F99", <<"U+1F29", "U+0399">>>>, <<"U+1F9A", <<"U+1F2A", "U+0399">>>>,
     <<"U+1F9B", <<"U+1F2B", "U+0399">>>>, <<"U+1F9C", <<"U+1F2C", "U+0399">>>>,
     <<"U+1F9D", <<"U+1F2D", "U+0399">>>>, <<"U+1F9E", <<"U+1F2E", "U+0399">>>>,
     <<"U+1F9F", <<"U+1F2F", "U+0399">>>>, <<"U+1FA0", <<"U+1F68", "U+0399">>>>,
     <<"U+1FA1", <<"U+1F69", "U+0399">>>>, <<"U+1FA2", <<"U+1F6A", "U+0399">>>>,
     <<"U+1FA3", <<"U+1F6B", "U+0399">>>>, <<"U+1FA4", <<"U+1F6C", "U+0399">>>>,
     <<"U+1FA5", <<"U+1F6D", "U+0399">>>>, <<"U+1FA6", <<"U+1F6E", "U+0399">>>>,
     <<"U+1FA7", <<"U+1F6F", "U+0399">>>>, <<"U+1FA8", <<"U+1F68", "U+0399">>>>,
     <<"U+1FA9", <<"U+1F69", "U+0399">>>>, <<"U+1FAA", <<"U+1F6A", "U+0399">>>>,
     <<"U+1FAB", <<"U+1F6B", "U+0399">>>>, <<"U+1FAC", <<"U+1F6C", "U+0399">>>>,
     <<"U+1FAD", <<"U+1F6D", "U+0399">>>>, <<"U+1FAE", <<"U+1F6E", "U+0399">>>>,
     <<"U+1FAF", <<"U+1F6F", "U+0399">>>>, <<"U+1FB0", <<"U+1FB8">>>>,
     <<"U+1FB1", <<"U+1FB9">>>>, <<"U+1FB2", <<"U+1FBA", "U+0399">>>>,
     <<"U+1FB3", <<"U+0391", "U+0399">>>>, <<"U+1FB4", <<"U+0386", "U+0399">>>>,
     <<"U+1FB6", <<"U+0391", "U+0342">>>>, <<"U+1FB7", <<"U+0391", "U+0342", "U+0399">>>>,
     <<"U+1FBC", <<"U+0391", "U+0399">>>>, <<"U+1FBE", <<"U+0399">>>>,
     <<"U+1FC2", <<"U+1FCA", "U+0399">>>>, <<"U+1FC3", <<"U+0397", "U+0399">>>>,
     <<"U+1FC4", <<"U+0389", "U+0399">>>>, <<"U+1FC6", <<"U+0397", "U+0342">>>>,
     <<"U+1FC7", <<"U+0397", "U+0342", "U+0399">>>>, <<"U+1FCC", <<"U+0397", "U+0399">>>>,
     <<"U+1FD0", <<"U+1FD8">>>>, <<"U+1FD1", <<"U+1FD9">>>>,
     <<"U+1FD2", <<"U+0399", "U+0308", "U+0300">>>>,
     <<"U+1FD3", <<"U+0399", "U+0308", "U+0301">>>>, <<"U+1FD6", <<"U+0399", "U+0342">>>>,
     <<"U+1FD7", <<"U+0399", "U+0308", "U+0342">>>>, <<"U+1FE0", <<"U+1FE8">>>>,
     <<"U+1FE1", <<"U+1FE9">>>>, <<"U+1FE2", <<"U+03A5", "U+0308", "U+0300">>>>,
     <<"U+1FE3", <<"U+03A5", "U+0308", "U+0301">>>>, <<"U+1FE4", <<"U+03A1", "U+0313">>>>,
     <<"U+1FE5", <<"U+1FEC">>>>, <<"U+1FE6", <<"U+03A5", "U+0342">>>>,
     <<"U+1FE7", <<"U+03A5", "U+0308", "U+0342">>>>, <<"U+1FF2", <<"U+1FFA", "U+0399">>>>,
     <<"U+1FF3", <<"U+03A9", "U+0399">>>>, <<"U+1FF4", <<"U+038F", "U+0399">>>>,
     <<"U+1FF6", <<"U+03A9", "U+0342">>>>, <<"U+1FF7", <<"U+03A9", "U+0342", "U+0399">>>>,
     <<"U+1FFC", <<"U+03A9", "U+0399">>>>, <<"U+214E", <<"U+2132">>>>,
     <<"U+2170", <<"U+2160">>>>, <<"U+2171", <<"U+2161">>>>, <<"U+2172", <<"U+2162">>>>,
     <<"U+2173", <<"U+2163">>>>, <<"U+2174", <<"U+2164">>>>, <<"U+2175", <<"U+2165">>>>,
     <<"U+2176", <<"U+2166">>>>, <<"U+2177", <<"U+2167">>>>, <<"U+2178", <<"U+2168">>>>,
     <<"U+2179", <<"U+2169">>>>, <<"U+217A", <<"U+216A">>>>, <<"U+217B", <<"U+216B">>>>,
     <<"U+217C", <<"U+216C">>>>, <<"U+217D", <<"U+216D">>>>, <<"U+217E", <<"U+216E">>>>,
     <<"U+217F", <<"U+216F">>>>, <<"U+2184", <<"U+2183">>>>, <<"U+24D0", <<"U+24B6">>>>,
     <<"U+24D1", <<"U+24B7">>>>, <<"U+24D2", <<"U+24B8">>>>, <<"U+24D3", <<"U+24B9">>>>,
     <<"U+24D4", <<"U+24BA">>>>, <<"U+24D5", <<"U+24BB">>>>, <<"U+24D6", <<"U+24BC">>>>,
     <<"U+24D7", <<"U+24BD">>>>, <<"U+24D8", <<"U+24BE">>>>, <<"U+24D9", <<"U+24BF">>>>,
     <<"U+24DA", <<"U+24C0">>>>, <<"U+24DB", <<"U+24C1">>>>, <<"U+24DC", <<"U+24C2">>>>,
     <<"U+24DD", <<"U+24C3">>>>, <<"U+24DE", <<"U+24C4">>>>, <<"U+24DF", <<"U+24C5">>>>,
     <<"U+24E0", <<"U+24C6">>>>, <<"U+24E1", <<"U+24C7">>>>, <<"U+24E2", <<"U+24C8">>>>,
     <<"U+24E3", <<"U+24C9">>>>, <<"U+24E4", <<"U+24CA">>>>, <<"U+24E5", <<"U+24CB">>>>,
     <<"U+24E6", <<"U+24CC">>>>, <<"U+24E7", <<"U+24CD">>>>, <<"U+24E8", <<"U+24CE">>>>,
     <<"U+24E9", <<"U+24CF">>>>, <<"U+2C30", <<"U+2C00">>>>, <<"U+2C31", <<"U+2C01">>>>,
     <<"U+2C32", <<"U+2C02">>>>, <<"U+2C33", <<"U+2C03">>>>, <<"U+2C34", <<"U+2C04">>>>,
     <<"U+2C35", <<"U+2C05">>>>, <<"U+2C36", <<"U+2C06">>>>, <<"U+2C37", <<"U+2C07">>>>,
     <<"U+2C38", <<"U+2C08">>>>, <<"U+2C39", <<"U+2C09">>>>, <<"U+2C3A", <<"U+2C0A">>>>,
     <<"U+2C3B", <<"U+2C0B">>>>, <<"U+2C3C", <<"U+2C0C">>>>, <<"U+2C3D", <<"U+2C0D">>>>,
     <<"U+2C3E", <<"U+2C0E">>>>, <<"U+2C3F", <<"U+2C0F">>>>, <<"U+2C40", <<"U+2C10">>>>,
     <<"U+2C41", <<"U+2C11">>>>, <<"U+2C42", <<"U+2C12">>>>, <<"U+2C43", <<"U+2C13">>>>,
     <<"U+2C44", <<"U+2C14">>>>, <<"U+2C45", <<"U+2C15">>>>, <<"U+2C46", <<"U+2C16">>>>,
     <<"U+2C47", <<"U+2C17">>>>, <<"U+2C48", <<"U+2C18">>>>, <<"U+2C49", <<"U+2C19">>>>,
     <<"U+2C4A", <<"U+2C1A">>>>, <<"U+2C4B", <<"U+2C1B">>>>, <<"U+2C4C", <<"U+2C1C">>>>,
     <<"U+2C4D", <<"U+2C1D">>>>, <<"U+2C4E", <<"U+2C1E">>>>, <<"U+2C4F", <<"U+2C1F">>>>,
     <<"U+2C50", <<"U+2C20">>>>, <<"U+2C51", <<"U+2C21">>>>, <<"U+2C52", <<"U+2C22">>>>,
     <<"U+2C53", <<"U+2C23">>>>, <<"U+2C54", <<"U+2C24">>>>, <<"U+2C55", <<"U+2C25">>>>,
     <<"U+2C56", <<"U+2C26">>>>, <<"U+2C57", <<"U+2C27">>>>, <<"U+2C58", <<"U+2C28">>>>,
     <<"U+2C59", <<"U+2C29">>>>, <<"U+2C5A", <<"U+2C2A">>>>, <<"U+2C5B", <<"U+2C2B">>>>,
     <<"U+2C5C", <<"U+2C2C">>>>, <<"U+2C5D", <<"U+2C2D">>>>, <<"U+2C5E", <<"U+2C2E">>>>,
     <<"U+2C5F", <<"U+2C2F">>>>, <<"U+2C61", <<"U+2C60">>>>, <<"U+2C65", <<"U+023A">>>>,
     <<"U+2C66", <<"U+023E">>>>, <<"U+2C68", <<"U+2C67">>>>, <<"U+2C6A", <<"U+2C69">>>>,
     <<"U+2C6C", <<"U+2C6B">>>>, <<"U+2C73", <<"U+2C72">>>>, <<"U+2C76", <<"U+2C75">>>>,
     <<"U+2C81", <<"U+2C80">>>>, <<"U+2C83", <<"U+2C82">>>>, <<"U+2C85", <<"U+2C84">>>>,
     <<"U+2C87", <<"U+2C86">>>>, <<"U+2C89", <<"U+2C88">>>>, <<"U+2C8B", <<"U+2C8A">>>>,
     <<"U+2C8D", <<"U+2C8C">>>>, <<"U+2C8F", <<"U+2C8E">>>>, <<"U+2C91", <<"U+2C90">>>>,
     <<"U+2C93", <<"U+2C92">>>>, <<"U+2C95", <<"U+2C94">>>>, <<"U+2C97", <<"U+2C96">>>>,
     <<"U+2C99", <<"U+2C98">>>>, <<"U+2C9B", <<"U+2C9A">>>>, <<"U+2C9D", <<"U+2C9C">>>>,
     <<"U+2C9F", <<"U+2C9E">>>>, <<"U+2CA1", <<"U+2CA0">>>>, <<"U+2CA3", <<"U+2CA2">>>>,
     <<"U+2CA5", <<"U+2CA4">>>>, <<"U+2CA7", <<"U+2CA6">>>>, <<"U+2CA9", <<"U+2CA8">>>>,
     <<"U+2CAB", <<"U+2CAA">>>>, <<"U+2CAD", <<"U+2CAC">>>>, <<"U+2CAF", <<"U+2CAE">>>>,
     <<"U+2CB1", <<"U+2CB0">>>>, <<"U+2CB3", <<"U+2CB2">>>>, <<"U+2CB5", <<"U+2CB4">>>>,
     <<"U+2CB7", <<"U+2CB6">>>>, <<"U+2CB9", <<"U+2CB8">>>>, <<"U+2CBB", <<"U+2CBA">>>>,
     <<"U+2CBD", <<"U+2CBC">>>>, <<"U+2CBF", <<"U+2CBE">>>>, <<"U+2CC1", <<"U+2CC0">>>>,
     <<"U+2CC3", <<"U+2CC2">>>>, <<"U+2CC5", <<"U+2CC4">>>>, <<"U+2CC7", <<"U+2CC6">>>>,
     <<"U+2CC9", <<"U+2CC8">>>>, <<"U+2CCB", <<"U+2CCA">>>>, <<"U+2CCD", <<"U+2CCC">>>>,
     <<"U+2CCF", <<"U+2CCE">>>>, <<"U+2CD1", <<"U+2CD0">>>>, <<"U+2CD3", <<"U+2CD2">>>>,
     <<"U+2CD5", <<"U+2CD4">>>>, <<"U+2CD7", <<"U+2CD6">>>>, <<"U+2CD9", <<"U+2CD8">>>>,
     <<"U+2CDB", <<"U+2CDA">>>>, <<"U+2CDD", <<"U+2CDC">>>>, <<"U+2CDF", <<"U+2CDE">>>>,
     <<"U+2CE1", <<"U+2CE0">>>>, <<"U+2CE3", <<"U+2CE2">>>>, <<"U+2CEC", <<"U+2CEB">>>>,
     <<"U+2CEE", <<"U+2CED">>>>, <<"U+2CF3", <<"U+2CF2">>>>, <<"U+2D00", <<"U+10A0">>>>,
     <<"U+2D01", <<"U+10A1">>>>, <<"U+2D02", <<"U+10A2">>>>, <<"U+2D03", <<"U+10A3">>>>,
     <<"U+2D04", <<"U+10A4">>>>, <<"U+2D05", <<"U+10A5">>>>, <<"U+2D06", <<"U+10A6">>>>,
     <<"U+2D07", <<"U+10A7">>>>, <<"U+2D08", <<"U+10A8">>>>, <<"U+2D09", <<"U+10A9">>>>,
     <<"U+2D0A", <<"U+10AA">>>>, <<"U+2D0B", <<"U+10AB">>>>, <<"U+2D0C", <<"U+10AC">>>>,
     <<"U+2D0D", <<"U+10AD">>>>, <<"U+2D0E", <<"U+10AE">>>>, <<"U+2D0F", <<"U+10AF">>>>,
     <<"U+2D10", <<"U+10B0">>>>, <<"U+2D11", <<"U+10B1">>>>, <<"U+2D12", <<"U+10B2">>>>,
     <<"U+2D13", <<"U+10B3">>>>, <<"U+2D14", <<"U+10B4">>>>, <<"U+2D15", <<"U+10B5">>>>,
     <<"U+2D16", <<"U+10B6">>>>, <<"U+2D17", <<"U+10B7">>>>, <<"U+2D18", <<"U+10B8">>>>,
     <<"U+2D19", <<"U+10B9">>>>, <<"U+2D1A", <<"U+10BA">>>>, <<"U+2D1B", <<"U+10BB">>>>,
     <<"U+2D1C", <<"U+10BC">>>>, <<"U+2D1D", <<"U+10BD">>>>, <<"U+2D1E", <<"U+10BE">>>>,
     <<"U+2D1F", <<"U+10BF">>>>, <<"U+2D20", <<"U+10C0">>>>, <<"U+2D21", <<"U+10C1">>>>,
     <<"U+2D22", <<"U+10C2">>>>, <<"U+2D23", <<"U+10C3">>>>, <<"U+2D24", <<"U+10C4">>>>,
     <<"U+2D25", <<"U+10C5">>>>, <<"U+2D27", <<"U+10C7">>>>, <<"U+2D2D", <<"U+10CD">>>>,
     <<"U+A641", <<"U+A640">>>>, <<"U+A643", <<"U+A642">>>>, <<"U+A645", <<"U+A644">>>>,
     <<"U+A647", <<"U+A646">>>>, <<"U+A649", <<"U+A648">>>>, <<"U+A64B", <<"U+A64A">>>>,
     <<"U+A64D", <<"U+A64C">>>>, <<"U+A64F", <<"U+A64E">>>>, <<"U+A651", <<"U+A650">>>>,
     <<"U+A653", <<"U+A652">>>>, <<"U+A655", <<"U+A654">>>>, <<"U+A657", <<"U+A656">>>>,
     <<"U+A659", <<"U+A658">>>>, <<"U+A65B", <<"U+A65A">>>>, <<"U+A65D", <<"U+A65C">>>>,
     <<"U+A65F", <<"U+A65E">>>>, <<"U+A661", <<"U+A660">>>>, <<"U+A663", <<"U+A662">>>>,
     <<"U+A665", <<"U+A664">>>>, <<"U+A667", <<"U+A666">>>>, <<"U+A669", <<"U+A668">>>>,
     <<"U+A66B", <<"U+A66A">>>>, <<"U+A66D", <<"U+A66C">>>>, <<"U+A681", <<"U+A680">>>>,
     <<"U+A683", <<"U+A682">>>>, <<"U+A685", <<"U+A684">>>>, <<"U+A687", <<"U+A686">>>>,
     <<"U+A689", <<"U+A688">>>>, <<"U+A68B", <<"U+A68A">>>>, <<"U+A68D", <<"U+A68C">>>>,
     <<"U+A68F", <<"U+A68E">>>>, <<"U+A691", <<"U+A690">>>>, <<"U+A693", <<"U+A692">>>>,
     <<"U+A695", <<"U+A694">>>>, <<"U+A697", <<"U+A696">>>>, <<"U+A699", <<"U+A698">>>>,
     <<"U+A69B", <<"U+A69A">>>>, <<"U+A723", <<"U+A722">>>>, <<"U+A725", <<"U+A724">>>>,
     <<"U+A727", <<"U+A726">>>>, <<"U+A729", <<"U+A728">>>>, <<"U+A72B", <<"U+A72A">>>>,
     <<"U+A72D", <<"U+A72C">>>>, <<"U+A72F", <<"U+A72E">>>>, <<"U+A733", <<"U+A732">>>>,
     <<"U+A735", <<"U+A734">>>>, <<"U+A737", <<"U+A736">>>>, <<"U+A739", <<"U+A738">>>>,
     <<"U+A73B", <<"U+A73A">>>>, <<"U+A73D", <<"U+A73C">>>>, <<"U+A73F", <<"U+A73E">>>>,
     <<"U+A741", <<"U+A740">>>>, <<"U+A743", <<"U+A742">>>>, <<"U+A745", <<"U+A744">>>>,
     <<"U+A747", <<"U+A746">>>>, <<"U+A749", <<"U+A748">>>>, <<"U+A74B", <<"U+A74A">>>>,
     <<"U+A74D", <<"U+A74C">>>>, <<"U+A74F", <<"U+A74E">>>>, <<"U+A751", <<"U+A750">>>>,
     <<"U+A753", <<"U+A752">>>>, <<"U+A755", <<"U+A754">>>>, <<"U+A757", <<"U+A756">>>>,
     <<"U+A759", <<"U+A758">>>>, <<"U+A75B", <<"U+A75A">>>>, <<"U+A75D", <<"U+A75C">>>>,
     <<"U+A75F", <<"U+A75E">>>>, <<"U+A761", <<"U+A760">>>>, <<"U+A763", <<"U+A762">>>>,
     <<"U+A765", <<"U+A764">>>>, <<"U+A767", <<"U+A766">>>>, <<"U+A769", <<"U+A768">>>>,
     <<"U+A76B", <<"U+A76A">>>>, <<"U+A76D", <<"U+A76C">>>>, <<"U+A76F", <<"U+A76E">>>>,
     <<"U+A77A", <<"U+A779">>>>, <<"U+A77C", <<"U+A77B">>>>, <<"U+A77F", <<"U+A77E">>>>,
     <<"U+A781", <<"U+A780">>>>, <<"U+A783", <<"U+A782">>>>, <<"U+A785", <<"U+A784">>>>,
     <<"U+A787", <<"U+A786">>>>, <<"U+A78C", <<"U+A78B">>>>, <<"U+A791", <<"U+A790">>>>,
     <<"U+A793", <<"U+A792">>>>, <<"U+A794", <<"U+A7C4">>>>, <<"U+A797", <<"U+A796">>>>,
     <<"U+A799", <<"U+A798">>>>, <<"U+A79B", <<"U+A79A">>>>, <<"U+A79D", <<"U+A79C">>>>,
     <<"U+A79F", <<"U+A79E">>>>, <<"U+A7A1", <<"U+A7A0">>>>, <<"U+A7A3", <<"U+A7A2">>>>,
     <<"U+A7A5", <<"U+A7A4">>>>, <<"U+A7A7", <<"U+A7A6">>>>, <<"U+A7A9", <<"U+A7A8">>>>,
     <<"U+A7B5", <<"U+A7B4">>>>, <<"U+A7B7", <<"U+A7B6">>>>, <<"U+A7B9", <<"U+A7B8">>>>,
     <<"U+A7BB", <<"U+A7BA">>>>, <<"U+A7BD", <<"U+A7BC">>>>, <<"U+A7BF", <<"U+A7BE">>>>,
     <<"U+A7C1", <<"U+A7C0">>>>, <<"U+A7C3", <<"U+A7C2">>>>, <<"U+A7C8", <<"U+A7C7">>>>,
     <<"U+A7CA", <<"U+A7C9">>>>, <<"U+A7D1", <<"U+A7D0">>>>, <<"U+A7D7", <<"U+A7D6">>>>,
     <<"U+A7D9", <<"U+A7D8">>>>, <<"U+A7F6", <<"U+A7F5">>>>, <<"U+AB53", <<"U+A7B3">>>>,
     <<"U+AB70", <<"U+13A0">>>>, <<"U+AB71", <<"U+13A1">>>>, <<"U+AB72", <<"U+13A2">>>>,
     <<"U+AB73", <<"U+13A3">>>>, <<"U+AB74", <<"U+13A4">>>>, <<"U+AB75", <<"U+13A5">>>>,
     <<"U+AB76", <<"U+13A6">>>>, <<"U+AB77", <<"U+13A7">>>>, <<"U+AB78", <<"U+13A8">>>>,
     <<"U+AB79", <<"U+13A9">>>>, <<"U+AB7A", <<"U+13AA">>>>, <<"U+AB7B", <<"U+13AB">>>>,
     <<"U+AB7C", <<"U+13AC">>>>, <<"U+AB7D", <<"U+13AD">>>>, <<"U+AB7E", <<"U+13AE">>>>,
     <<"U+AB7F", <<"U+13AF">>>>, <<"U+AB80", <<"U+13B0">>>>, <<"U+AB81", <<"U+13B1">>>>,
     <<"U+AB82", <<"U+13B2">>>>, <<"U+AB83", <<"U+13B3">>>>, <<"U+AB84", <<"U+13B4">>>>,
     <<"U+AB85", <<"U+13B5">>>>, <<"U+AB86", <<"U+13B6">>>>, <<"U+AB87", <<"U+13B7">>>>,
     <<"U+AB88", <<"U+13B8">>>>, <<"U+AB89", <<"U+13B9">>>>, <<"U+AB8A", <<"U+13BA">>>>,
     <<"U+AB8B", <<"U+13BB">>>>, <<"U+AB8C", <<"U+13BC">>>>, <<"U+AB8D", <<"U+13BD">>>>,
     <<"U+AB8E", <<"U+13BE">>>>, <<"U+AB8F", <<"U+13BF">>>>, <<"U+AB90", <<"U+13C0">>>>,
     <<"U+AB91", <<"U+13C1">>>>, <<"U+AB92", <<"U+13C2">>>>, <<"U+AB93", <<"U+13C3">>>>,
     <<"U+AB94", <<"U+13C4">>>>, <<"U+AB95", <<"U+13C5">>>>, <<"U+AB96", <<"U+13C6">>>>,
     <<"U+AB97", <<"U+13C7">>>>, <<"U+AB98", <<"U+13C8">>>>, <<"U+AB99", <<"U+13C9">>>>,
     <<"U+AB9A", <<"U+13CA">>>>, <<"U+AB9B", <<"U+13CB">>>>, <<"U+AB9C", <<"U+13CC">>>>,
     <<"U+AB9D", <<"U+13CD">>>>, <<"U+AB9E", <<"U+13CE">>>>, <<"U+AB9F", <<"U+13CF">>>>,
     <<"U+ABA0", <<"U+13D0">>>>, <<"U+ABA1", <<"U+13D1">>>>, <<"U+ABA2", <<"U+13D2">>>>,
     <<"U+ABA3", <<"U+13D3">>>>, <<"U+ABA4", <<"U+13D4">>>>, <<"U+ABA5", <<"U+13D5">>>>,
     <<"U+ABA6", <<"U+13D6">>>>, <<"U+ABA7", <<"U+13D7">>>>, <<"U+ABA8", <<"U+13D8">>>>,
     <<"U+ABA9", <<"U+13D9">>>>, <<"U+ABAA", <<"U+13DA">>>>, <<"U+ABAB", <<"U+13DB">>>>,
     <<"U+ABAC", <<"U+13DC">>>>, <<"U+ABAD", <<"U+13DD">>>>, <<"U+ABAE", <<"U+13DE">>>>,
     <<"U+ABAF", <<"U+13DF">>>>, <<"U+ABB0", <<"U+13E0">>>>, <<"U+ABB1", <<"U+13E1">>>>,
     <<"U+ABB2", <<"U+13E2">>>>, <<"U+ABB3", <<"U+13E3">>>>, <<"U+ABB4", <<"U+13E4">>>>,
     <<"U+ABB5", <<"U+13E5">>>>, <<"U+ABB6", <<"U+13E6">>>>, <<"U+ABB7", <<"U+13E7">>>>,
     <<"U+ABB8", <<"U+13E8">>>>, <<"U+ABB9", <<"U+13E9">>>>, <<"U+ABBA", <<"U+13EA">>>>,
     <<"U+ABBB", <<"U+13EB">>>>, <<"U+ABBC", <<"U+13EC">>>>, <<"U+ABBD", <<"U+13ED">>>>,
     <<"U+ABBE", <<"U+13EE">>>>, <<"U+ABBF", <<"U+13EF">>>>, <<"U+FB00", <<"F", "F">>>>,
     <<"U+FB01", <<"F", "I">>>>, <<"U+FB02", <<"F", "L">>>>, <<"U+FB03", <<"F", "F", "I">>>>,
     <<"U+FB04", <<"F", "F", "L">>>>, <<"U+FB05", <<"S", "T">>>>, <<"U+FB06", <<"S", "T">>>>,
     <<"U+FB13", <<"U+0544", "U+0546">>>>, <<"U+FB14", <<"U+0544", "U+0535">>>>,
     <<"U+FB15", <<"U+0544", "U+053B">>>>, <<"U+FB16", <<"U+054E", "U+0546">>>>,
     <<"U+FB17", <<"U+0544", "U+053D">>>>, <<"U+FF41", <<"U+FF21">>>>,
     <<"U+FF42", <<"U+FF22">>>>, <<"U+FF43", <<"U+FF23">>>>, <<"U+FF44", <<"U+FF24">>>>,
     <<"U+FF45", <<"U+FF25">>>>, <<"U+FF46", <<"U+FF26">>>>, <<"U+FF47", <<"U+FF27">>>>,
     <<"U+FF48", <<"U+FF28">>>>, <<"U+FF49", <<"U+FF29">>>>, <<"U+FF4A", <<"U+FF2A">>>>,
     <<"U+FF4B", <<"U+FF2B">>>>, <<"U+FF4C", <<"U+FF2C">>>>, <<"U+FF4D", <<"U+FF2D">>>>,
     <<"U+FF4E", <<"U+FF2E">>>>, <<"U+FF4F", <<"U+FF2F">>>>, <<"U+FF50", <<"U+FF30">>>>,
     <<"U+FF51", <<"U+FF31">>>>, <<"U+FF52", <<"U+FF32">>>>, <<"U+FF53", <<"U+FF33">>>>,
     <<"U+FF54", <<"U+FF34">>>>, <<"U+FF55", <<"U+FF35">>>>, <<"U+FF56", <<"U+FF36">>>>,
     <<"U+FF57", <<"U+FF37">>>>, <<"U+FF58", <<"U+FF38">>>>, <<"U+FF59", <<"U+FF39">>>>,
     <<"U+FF5A", <<"U+FF3A">>>>, <<"U+10428", <<"U+10400">>>>, <<"U+10429", <<"U+10401">>>>,
     <<"U+1042A", <<"U+10402">>>>, <<"U+1042B", <<"U+10403">>>>, <<"U+1042C", <<"U+10404">>>>,
     <<"U+1042D", <<"U+10405">>>>, <<"U+1042E", <<"U+10406">>>>, <<"U+1042F", <<"U+10407">>>>,
     <<"U+10430", <<"U+10408">>>>, <<"U+10431", <<"U+10409">>>>, <<"U+10432", <<"U+1040A">>>>,
     <<"U+10433", <<"U+1040B">>>>, <<"U+10434", <<"U+1040C">>>>, <<"U+10435", <<"U+1040D">>>>,
     <<"U+10436", <<"U+1040E">>>>, <<"U+10437", <<"U+1040F">>>>, <<"U+10438", <<"U+10410">>>>,
     <<"U+10439", <<"U+10411">>>>, <<"U+1043A", <<"U+10412">>>>, <<"U+1043B", <<"U+10413">>>>,
     <<"U+1043C", <<"U+10414">>>>, <<"U+1043D", <<"U+10415">>>>, <<"U+1043E", <<"U+10416">>>>,
     <<"U+1043F", <<"U+10417">>>>, <<"U+10440", <<"U+10418">>>>, <<"U+10441", <<"U+10419">>>>,
     <<"U+10442", <<"U+1041A">>>>, <<"U+10443", <<"U+1041B">>>>, <<"U+10444", <<"U+1041C">>>>,
     <<"U+10445", <<"U+1041D">>>>, <<"U+10446", <<"U+1041E">>>>, <<"U+10447", <<"U+1041F">>>>,
     <<"U+10448", <<"U+10420">>>>, <<"U+10449", <<"U+10421">>>>, <<"U+1044A", <<"U+10422">>>>,
     <<"U+1044B", <<"U+10423">>>>, <<"U+1044C", <<"U+10424">>>>, <<"U+1044D", <<"U+10425">>>>,
     <<"U+1044E", <<"U+10426">>>>, <<"U+1044F", <<"U+10427">>>>, <<"U+104D8", <<"U+104B0">>>>,
     <<"U+104D9", <<"U+104B1">>>>, <<"U+104DA", <<"U+104B2">>>>, <<"U+104DB", <<"U+104B3">>>>,
     <<"U+104DC", <<"U+104B4">>>>, <<"U+104DD", <<"U+104B5">>>>, <<"U+104DE", <<"U+104B6">>>>,
     <<"U+104DF", <<"U+104B7">>>>, <<"U+104E0", <<"U+104B8">>>>, <<"U+104E1", <<"U+104B9">>>>,
     <<"U+104E2", <<"U+104BA">>>>, <<"U+104E3", <<"U+104BB">>>>, <<"U+104E4", <<"U+104BC">>>>,
     <<"U+104E5", <<"U+104BD">>>>, <<"U+104E6", <<"U+104BE">>>>, <<"U+104E7", <<"U+104BF">>>>,
     <<"U+104E8", <<"U+104C0">>>>, <<"U+104E9", <<"U+104C1">>>>, <<"U+104EA", <<"U+104C2">>>>,
     <<"U+104EB", <<"U+104C3">>>>, <<"U+104EC", <<"U+104C4">>>>, <<"U+104ED", <<"U+104C5">>>>,
     <<"U+104EE", <<"U+104C6">>>>, <<"U+104EF", <<"U+104C7">>>>, <<"U+104F0", <<"U+104C8">>>>,
     <<"U+104F1", <<"U+104C9">>>>, <<"U+104F2", <<"U+104CA">>>>, <<"U+104F3", <<"U+104CB">>>>,
     <<"U+104F4", <<"U+104CC">>>>, <<"U+104F5", <<"U+104CD">>>>, <<"U+104F6", <<"U+104CE">>>>,
     <<"U+104F7", <<"U+104CF">>>>, <<"U+104F8", <<"U+104D0">>>>, <<"U+104F9", <<"U+104D1">>>>,
     <<"U+104FA", <<"U+104D2">>>>, <<"U+104FB", <<"U+104D3">>>>, <<"U+10597", <<"U+10570">>>>,
     <<"U+10598", <<"U+10571">>>>, <<"U+10599", <<"U+10572">>>>, <<"U+1059A", <<"U+10573">>>>,
     <<"U+1059B", <<"U+10574">>>>, <<"U+1059C", <<"U+10575">>>>, <<"U+1059D", <<"U+10576">>>>,
     <<"U+1059E", <<"U+10577">>>>, <<"U+1059F", <<"U+10578">>>>, <<"U+105A0", <<"U+10579">>>>,
     <<"U+105A1", <<"U+1057A">>>>, <<"U+105A3", <<"U+1057C">>>>, <<"U+105A4", <<"U+1057D">>>>,
     <<"U+105A5", <<"U+1057E">>>>, <<"U+105A6", <<"U+1057F">>>>, <<"U+105A7", <<"U+10580">>>>,
     <<"U+105A8", <<"U+10581">>>>, <<"U+105A9", <<"U+10582">>>>, <<"U+105AA", <<"U+10583">>>>,
     <<"U+105AB", <<"U+10584">>>>, <<"U+105AC", <<"U+10585">>>>, <<"U+105AD", <<"U+10586">>>>,
     <<"U+105AE", <<"U+10587">>>>, <<"U+105AF", <<"U+10588">>>>, <<"U+105B0", <<"U+10589">>>>,
     <<"U+105B1", <<"U+1058A">>>>, <<"U+105B3", <<"U+1058C">>>>, <<"U+105B4", <<"U+1058D">>>>,
     <<"U+105B5", <<"U+1058E">>>>, <<"U+105B6", <<"U+1058F">>>>, <<"U+105B7", <<"U+10590">>>>,
     <<"U+105B8", <<"U+10591">>>>, <<"U+105B9", <<"U+10592">>>>, <<"U+105BB", <<"U+10594">>>>,
     <<"U+105BC", <<"U+10595">>>>, <<"U+10CC0", <<"U+10C80">>>>, <<"U+10CC1", <<"U+10C81">>>>,
     <<"U+10CC2", <<"U+10C82">>>>, <<"U+10CC3", <<"U+10C83">>>>, <<"U+10CC4", <<"U+10C84">>>>,
     <<"U+10CC5", <<"U+10C85">>>>, <<"U+10CC6", <<"U+10C86">>>>, <<"U+10CC7", <<"U+10C87">>>>,
     <<"U+10CC8", <<"U+10C88">>>>, <<"U+10CC9", <<"U+10C89">>>>, <<"U+10CCA", <<"U+10C8A">>>>,
     <<"U+10CCB", <<"U+10C8B">>>>, <<"U+10CCC", <<"U+10C8C">>>>, <<"U+10CCD", <<"U+10C8D">>>>,
     <<"U+10CCE", <<"U+10C8E">>>>, <<"U+10CCF", <<"U+10C8F">>>>, <<"U+10CD0", <<"U+10C90">>>>,
     <<"U+10CD1", <<"U+10C91">>>>, <<"U+10CD2", <<"U+10C92">>>>, <<"U+10CD3", <<"U+10C93">>>>,
     <<"U+10CD4", <<"U+10C94">>>>, <<"U+10CD5", <<"U+10C95">>>>, <<"U+10CD6", <<"U+10C96">>>>,
     <<"U+10CD7", <<"U+10C97">>>>, <<"U+10CD8", <<"U+10C98">>>>, <<"U+10CD9", <<"U+10C99">>>>,
     <<"U+10CDA", <<"U+10C9A">>>>, <<"U+10CDB", <<"U+10C9B">>>>, <<"U+10CDC", <<"U+10C9C">>>>,
     <<"U+10CDD", <<"U+10C9D">>>>, <<"U+10CDE", <<"U+10C9E">>>>, <<"U+10CDF", <<"U+10C9F">>>>,
     <<"U+10CE0", <<"U+10CA0">>>>, <<"U+10CE1", <<"U+10CA1">>>>, <<"U+10CE2", <<"U+10CA2">>>>,
     <<"U+10CE3", <<"U+10CA3">>>>, <<"U+10CE4", <<"U+10CA4">>>>, <<"U+10CE5", <<"U+10CA5">>>>,
     <<"U+10CE6", <<"U+10CA6">>>>, <<"U+10CE7", <<"U+10CA7">>>>, <<"U+10CE8", <<"U+10CA8">>>>,
     <<"U+10CE9", <<"U+10CA9">>>>, <<"U+10CEA", <<"U+10CAA">>>>, <<"U+10CEB", <<"U+10CAB">>>>,
     <<"U+10CEC", <<"U+10CAC">>>>, <<"U+10CED", <<"U+10CAD">>>>, <<"U+10CEE", <<"U+10CAE">>>>,
     <<"U+10CEF", <<"U+10CAF">>>>, <<"U+10CF0", <<"U+10CB0">>>>, <<"U+10CF1", <<"U+10CB1">>>>,
     <<"U+10CF2", <<"U+10CB2">>>>, <<"U+118C0", <<"U+118A0">>>>, <<"U+118C1", <<"U+118A1">>>>,
     <<"U+118C2", <<"U+118A2">>>>, <<"U+118C3", <<"U+118A3">>>>, <<"U+118C4", <<"U+118A4">>>>,
     <<"U+118C5", <<"U+118A5">>>>, <<"U+118C6", <<"U+118A6">>>>, <<"U+118C7", <<"U+118A7">>>>,
     <<"U+118C8", <<"U+118A8">>>>, <<"U+118C9", <<"U+118A9">>>>, <<"U+118CA", <<"U+118AA">>>>,
     <<"U+118CB", <<"U+118AB">>>>, <<"U+118CC", <<"U+118AC">>>>, <<"U+118CD", <<"U+118AD">>>>,
     <<"U+118CE", <<"U+118AE">>>>, <<"U+118CF", <<"U+118AF">>>>, <<"U+118D0", <<"U+118B0">>>>,
     <<"U+118D1", <<"U+118B1">>>>, <<"U+118D2", <<"U+118B2">>>>, <<"U+118D3", <<"U+118B3">>>>,
     <<"U+118D4", <<"U+118B4">>>>, <<"U+118D5", <<"U+118B5">>>>, <<"U+118D6", <<"U+118B6">>>>,
     <<"U+118D7", <<"U+118B7">>>>, <<"U+118D8", <<"U+118B8">>>>, <<"U+118D9", <<"U+118B9">>>>,
     <<"U+118DA", <<"U+118BA">>>>, <<"U+118DB", <<"U+118BB">>>>, <<"U+118DC", <<"U+118BC">>>>,
     <<"U+118DD", <<"U+118BD">>>>, <<"U+118DE", <<"U+118BE">>>>, <<"U+118DF", <<"U+118BF">>>>,
     <<"U+16E60", <<"U+16E40">>>>, <<"U+16E61", <<"U+16E41">>>>, <<"U+16E62", <<"U+16E42">>>>,
     <<"U+16E63", <<"U+16E43">>>>, <<"U+16E64", <<"U+16E44">>>>, <<"U+16E65", <<"U+16E45">>>>,
     <<"U+16E66", <<"U+16E46">>>>, <<"U+16E67", <<"U+16E47">>>>, <<"U+16E68", <<"U+16E48">>>>,
     <<"U+16E69", <<"U+16E49">>>>, <<"U+16E6A", <<"U+16E4A">>>>, <<"U+16E6B", <<"U+16E4B">>>>,
     <<"U+16E6C", <<"U+16E4C">>>>, <<"U+16E6D", <<"U+16E4D">>>>, <<"U+16E6E", <<"U+16E4E">>>>,
     <<"U+16E6F", <<"U+16E4F">>>>, <<"U+16E70", <<"U+16E50">>>>, <<"U+16E71", <<"U+16E51">>>>,
     <<"U+16E72", <<"U+16E52">>>>, <<"U+16E73", <<"U+16E53">>>>, <<"U+16E74", <<"U+16E54">>>>,
     <<"U+16E75", <<"U+16E55">>>>, <<"U+16E76", <<"U+16E56">>>>, <<"U+16E77", <<"U+16E57">>>>,
     <<"U+16E78", <<"U+16E58">>>>, <<"U+16E79", <<"U+16E59">>>>, <<"U+16E7A", <<"U+16E5A">>>>,
     <<"U+16E7B", <<"U+16E5B">>>>, <<"U+16E7C", <<"U+16E5C">>>>, <<"U+16E7D", <<"U+16E5D">>>>,
     <<"U+16E7E", <<"U+16E5E">>>>, <<"U+16E7F", <<"U+16E5F">>>>, <<"U+1E922", <<"U+1E900">>>>,
     <<"U+1E923", <<"U+1E901">>>>, <<"U+1E924", <<"U+1E902">>>>, <<"U+1E925", <<"U+1E903">>>>,
     <<"U+1E926", <<"U+1E904">>>>, <<"U+1E927", <<"U+1E905">>>>, <<"U+1E928", <<"U+1E906">>>>,
     <<"U+1E929", <<"U+1E907">>>>, <<"U+1E92A", <<"U+1E908">>>>, <<"U+1E92B", <<"U+1E909">>>>,
     <<"U+1E92C", <<"U+1E90A">>>>, <<"U+1E92D", <<"U+1E90B">>>>, <<"U+1E92E", <<"U+1E90C">>>>,
     <<"U+1E92F", <<"U+1E90D">>>>, <<"U+1E930", <<"U+1E90E">>>>, <<"U+1E931", <<"U+1E90F">>>>,
     <<"U+1E932", <<"U+1E910">>>>, <<"U+1E933", <<"U+1E911">>>>, <<"U+1E934", <<"U+1E912">>>>,
     <<"U+1E935", <<"U+1E913">>>>, <<"U+1E936", <<"U+1E914">>>>, <<"U+1E937", <<"U+1E915">>>>,
     <<"U+1E938", <<"U+1E916">>>>, <<"U+1E939", <<"U+1E917">>>>, <<"U+1E93A", <<"U+1E918">>>>,
     <<"U+1E93B", <<"U+1E919">>>>, <<"U+1E93C", <<"U+1E91A">>>>, <<"U+1E93D", <<"U+1E91B">>>>,
     <<"U+1E93E", <<"U+1E91C">>>>, <<"U+1E93F", <<"U+1E91D">>>>, <<"U+1E940", <<"U+1E91E">>>>,
     <<"U+1E941", <<"U+1E91F">>>>, <<"U+1E942", <<"U+1E920">>>>, <<"U+1E943", <<"U+1E921">>>>,
     <<"U+019B", <<"U+A7DC">>>>, <<"U+0264", <<"U+A7CB">>>>, <<"U+1C8A", <<"U+1C89">>>>,
     <<"U+A7CD", <<"U+A7CC">>>>, <<"U+A7CF", <<"U+A7CE">>>>, <<"U+A7D3", <<"U+A7D2">>>>,
     <<"U+A7D5", <<"U+A7D4">>>>, <<"U+A7DB", <<"U+A7DA">>>>, <<"U+10D70", <<"U+10D50">>>>,
     <<"U+10D71", <<"U+10D51">>>>, <<"U+10D72", <<"U+10D52">>>>, <<"U+10D73", <<"U+10D53">>>>,
     <<"U+10D74", <<"U+10D54">>>>, <<"U+10D75", <<"U+10D55">>>>, <<"U+10D76", <<"U+10D56">>>>,
     <<"U+10D77", <<"U+10D57">>>>, <<"U+10D78", <<"U+10D58">>>>, <<"U+10D79", <<"U+10D59">>>>,
     <<"U+10D7A", <<"U+10D5A">>>>, <<"U+10D7B", <<"U+10D5B">>>>, <<"U+10D7C", <<"U+10D5C">>>>,
     <<"U+10D7D", <<"U+10D5D">>>>, <<"U+10D7E", <<"U+10D5E">>>>, <<"U+10D7F", <<"U+10D5F">>>>,
     <<"U+10D80", <<"U+10D60">>>>, <<"U+10D81", <<"U+10D61">>>>, <<"U+10D82", <<"U+10D62">>>>,
     <<"U+10D83", <<"U+10D63">>>>, <<"U+10D84", <<"U+10D64">>>>, <<"U+10D85", <<"U+10D65">>>>,
     <<"U+16EBB", <<"U+16EA0">>>>, <<"U+16EBC", <<"U+16EA1">>>>, <<"U+16EBD", <<"U+16EA2">>>>,
     <<"U+16EBE", <<"U+16EA3">>>>, <<"U+16EBF", <<"U+16EA4">>>>, <<"U+16EC0", <<"U+16EA5">>>>,
     <<"U+16EC1", <<"U+16EA6">>>>, <<"U+16EC2", <<"U+16EA7">>>>, <<"U+16EC3", <<"U+16EA8">>>>,
     <<"U+16EC4", <<"U+16EA9">>>>, <<"U+16EC5", <<"U+16EAA">>>>, <<"U+16EC6", <<"U+16EAB">>>>,
     <<"U+16EC7", <<"U+16EAC">>>>, <<"U+16EC8", <<"U+16EAD">>>>, <<"U+16EC9", <<"U+16EAE">>>>,
     <<"U+16ECA", <<"U+16EAF">>>>, <<"U+16ECB", <<"U+16EB0">>>>, <<"U+16ECC", <<"U+16EB1">>>>,
     <<"U+16ECD", <<"U+16EB2">>>>, <<"U+16ECE", <<"U+16EB3">>>>, <<"U+16ECF", <<"U+16EB4">>>>,
     <<"U+16ED0", <<"U+16EB5">>>>, <<"U+16ED1", <<"U+16EB6">>>>, <<"U+16ED2", <<"U+16EB7">>>>,
     <<"U+16ED3", <<"U+16EB8">>>> })

\* char::to_uppercase: the upper-case form of one character, as a text
UpperChar(c) ==
    IF \E i \in 1..Len(LowerCase) : LowerCase[i] = c
    THEN <<UpperCase[CHOOSE i \in 1..Len(LowerCase) : LowerCase[i] = c]>>
    ELSE IF c \in DOMAIN SpecialUpper THEN SpecialUpper[c] ELSE <<c>>

\* str::to_uppercase: the upper-case forms of the characters, concatenated
RECURSIVE ToUppercase(_)
ToUppercase(s) == IF s = <<>> THEN <<>> ELSE UpperChar(Head(s)) \o ToUppercase(Tail(s))

(***************************************************************************)
(* chrono: instants, deltas, and the timestamp formats parse_timestamp     *)
(* tries.  An instant is chrono's own triple: the day number counted from  *)
(* 1970-01-01, the second of the day, and the nanosecond, which is         *)
(* 1000000000 or more during a leap second (second 59 of some minute).     *)
(* The formats are read item by item as chrono's parser reads them: a      *)
(* numeric item skips leading white space and takes one digit up to its    *)
(* width, a literal must follow at once (after optional white space in the *)
(* RFC 3339 reader).                                                       *)
(***************************************************************************)
DigitChars == <<"0","1","2","3","4","5","6","7","8","9">>

IsDigit(c) == \E i \in 1..10 : DigitChars[i] = c

DigitVal(c) == (CHOOSE i \in 1..10 : DigitChars[i] = c) - 1

AllDigits(s) == \A i \in 1..Len(s) : IsDigit(s[i])

RECURSIVE Num(_)
Num(s) == IF s = <<>> THEN 0 ELSE Num(SubSeq(s, 1, Len(s) - 1)) * 10 + DigitVal(s[Len(s)])

IsLeap(y) == (y % 4 = 0 /\ y % 100 # 0) \/ y % 400 = 0

DaysInMonth(y, m) ==
    IF m = 2 THEN (IF IsLeap(y) THEN 29 ELSE 28)
    ELSE IF m \in {4, 6, 9, 11} THEN 30 ELSE 31

\* days since 1970-01-01 of a proleptic Gregorian date
DaysFromCivil(y, m, d) ==
    LET yy  == IF m <= 2 THEN y - 1 ELSE y
        era == yy \div 400
        yoe == yy - era * 400
        mp  == IF m > 2 THEN m - 3 ELSE m + 9
        doy == (153 * mp + 2) \div 5 + d - 1
        doe == yoe * 365 + yoe \div 4 - yoe \div 100 + doy
    IN  era * 146097 + doe - 719468

\* the length of the run of digits s starts with, max at most
RECURSIVE DigitRun(_, _)
DigitRun(s, max) ==
    IF max > 0 /\ s # <<>> /\ IsDigit(Head(s)) THEN 1 + DigitRun(Tail(s), max - 1) ELSE 0

RECURSIVE Pow10(_)
Pow10(n) == IF n = 0 THEN 1 ELSE 10 * Pow10(n - 1)

\* the years of NaiveDate::MIN and NaiveDate::MAX
MinYear == 0 - 262143

MaxYear == 262142

\* a * k + carry, limb by limb, for k below 2^15, in the width of a
RECURSIVE MulLimbs(_, _, _)
MulLimbs(a, k, carry) ==
    IF a = <<>> THEN <<>>
    ELSE <<(Head(a) * k + carry) % 65536>>
         \o MulLimbs(Tail(a), k, (Head(a) * k + carry) \div 65536)

\* the loop of scan::number over the digits s from the number n on:
\* n.checked_mul(10) and checked_add of the digit, None once one of them
\* overflows the i64, else Some(the number), an i64 that is never negative, in
\* four 16-bit limbs, the lowest first; n has a fifth limb for the overflow
RECURSIVE CheckedDigits(_, _)
CheckedDigits(n, s) ==
    IF s = <<>> THEN Some(SubSeq(n, 1, 4))
    ELSE LET next == MulLimbs(n, 10, DigitVal(Head(s)))
         IN  IF next[5] # 0 \/ next[4] >= 32768 THEN None
             ELSE CheckedDigits(next, Tail(s))

\* scan::number(s, 1, max): the digits s starts with, at least one and at most
\* max of them, read as an i64: [ok, rest, value]; it fails when there is no
\* digit and when the digits overflow the i64 (OutOfRange)
ScanNumber(s, max) ==
    LET n == DigitRun(s, max)
        v == CheckedDigits(<<0, 0, 0, 0, 0>>, SubSeq(s, 1, n))
    IN  IF n = 0 \/ v = None THEN [ok |-> FALSE]
        ELSE [ok |-> TRUE, rest |-> SubSeq(s, n + 1, Len(s)), value |-> v[1]]

\* the reader's state: whether every item so far matched, the text not yet
\* read, and the numbers the numeric items gave (Parsed), in item order
ParseStart(s) == [ok |-> TRUE, rest |-> s, fields |-> <<>>]

\* Item::Numeric with an unsigned field of the given width: leading white
\* space is skipped, and the setter of the field (Parsed::set_month, set_day,
\* set_hour, set_minute, set_second) takes a number within lo..=hi and
\* refuses any other (OutOfRange)
NumericItem(st, width, lo, hi) ==
    IF ~st.ok THEN [ok |-> FALSE]
    ELSE LET r == ScanNumber(TrimStart(st.rest), width)
         IN  IF /\ r.ok
                /\ r.value[2] = 0 /\ r.value[3] = 0 /\ r.value[4] = 0
                /\ r.value[1] \in lo..hi
             THEN [ok |-> TRUE, rest |-> r.rest, fields |-> Append(st.fields, r.value[1])]
             ELSE [ok |-> FALSE]

\* Parsed::set_year on the number the scan r read, taken with the sign: it
\* takes any i32 (i32::try_from) and refuses the others (OutOfRange)
SetYear(fields, r, sign) ==
    IF /\ r.ok
       /\ r.value[3] = 0 /\ r.value[4] = 0
       /\ r.value[2] < 32768 \/ (sign < 0 /\ r.value[2] = 32768 /\ r.value[1] = 0)
    THEN [ok |-> TRUE, rest |-> r.rest,
          fields |-> Append(fields, (sign * r.value[2]) * 65536 + sign * r.value[1])]
    ELSE [ok |-> FALSE]

\* Item::Numeric(Year): four digits at most, or a sign and any number of digits
YearItem(st) ==
    IF ~st.ok THEN [ok |-> FALSE]
    ELSE LET t == TrimStart(st.rest)
         IN  IF StartsWith(t, "-") THEN SetYear(st.fields, ScanNumber(Tail(t), Len(t)), 0 - 1)
             ELSE IF StartsWith(t, "+") THEN SetYear(st.fields, ScanNumber(Tail(t), Len(t)), 1)
             ELSE SetYear(st.fields, ScanNumber(t, 4), 1)

\* Item::Literal of one character, after Item::Space("") where the reader has
\* one
LiteralItem(st, c, spaced) ==
    LET t == IF spaced THEN TrimStart(st.rest) ELSE st.rest
    IN  IF st.ok /\ StartsWith(t, c) THEN [st EXCEPT !.rest = Tail(t)] ELSE [ok |-> FALSE]

\* the character between date and time in parse_rfc3339_relaxed
SeparatorItem(st) ==
    IF st.ok /\ st.rest # <<>> /\ Head(st.rest) \in {"T", "t", " "}
    THEN [st EXCEPT !.rest = Tail(st.rest)]
    ELSE [ok |-> FALSE]

\* Fixed::Nanosecond: nothing, or '.' and at least one digit; the first nine
\* digits count and the others are skipped
NanosecondItem(st) ==
    IF ~st.ok THEN [ok |-> FALSE]
    ELSE IF ~StartsWith(st.rest, ".") THEN [st EXCEPT !.fields = Append(st.fields, 0)]
    ELSE LET run  == DigitRun(Tail(st.rest), Len(st.rest))
             used == IF run > 9 THEN 9 ELSE run
         IN  IF run = 0 THEN [ok |-> FALSE]
             ELSE [ok |-> TRUE,
                   rest |-> SubSeq(st.rest, 2 + run, Len(st.rest)),
                   fields |-> Append(st.fields,
                                     Num(SubSeq(st.rest, 2, 1 + used)) * Pow10(9 - used))]

\* year, month (1..=12) and day (1..=31) with '-' between them
DateItems(st, spaced) ==
    NumericItem(LiteralItem(NumericItem(LiteralItem(YearItem(st), "-", spaced), 2, 1, 12),
                            "-", spaced), 2, 1, 31)

\* hour (0..=23), minute (0..=59) and second (0..=60) with ':' between them,
\* and the fraction
TimeItems(st, spaced) ==
    NanosecondItem(
        NumericItem(LiteralItem(NumericItem(LiteralItem(NumericItem(st, 2, 0, 23), ":", spaced),
                                            2, 0, 59),
                                ":", spaced), 2, 0, 60))

\* Parsed::to_naive_date: Some(day number) of a date that exists, or None
to_naive_date(year, month, day) ==
    IF /\ year \in MinYear..MaxYear /\ month \in 1..12
       /\ day \in 1..DaysInMonth(year, month)
    THEN Some(DaysFromCivil(year, month, day))
    ELSE None

\* Parsed::to_naive_time: second 60 is the leap second of second 59
to_naive_time(hour, minute, second, nano) ==
    IF hour \in 0..23 /\ minute \in 0..59 /\ second \in 0..60
    THEN Some([secs |-> hour * 3600 + minute * 60 + (IF second = 60 THEN 59 ELSE second),
               nanos |-> (IF second = 60 THEN 1000000000 ELSE 0) + nano])
    ELSE None

\* Parsed::to_naive_datetime_with_offset on the seven fields read (year,
\* month, day, hour, minute, second, nanosecond): [ok, days, secs, nanos, rest]
ResolveFields(st) ==
    IF ~st.ok THEN [ok |-> FALSE]
    ELSE LET date == to_naive_date(st.fields[1], st.fields[2], st.fields[3])
             time == to_naive_time(st.fields[4], st.fields[5], st.fields[6], st.fields[7])
         IN  IF date = None \/ time = None THEN [ok |-> FALSE]
             ELSE [ok |-> TRUE, days |-> date[1], secs |-> time[1].secs,
                   nanos |-> time[1].nanos, rest |-> st.rest]

\* the items of "%Y-%m-%dT%H:%M:%S%.f" read from the start of s, and the text
\* they leave: [ok, days, secs, nanos, rest]
ParseDateTimeFields(s) ==
    ResolveFields(TimeItems(LiteralItem(DateItems(ParseStart(s), FALSE), "T", FALSE), FALSE))

\* parse_rfc3339_relaxed up to the offset: the date, one of 'T', 't' and ' ',
\* and the time, with white space allowed before each '-' and ':'
ParseRfc3339Fields(s) ==
    ResolveFields(TimeItems(SeparatorItem(DateItems(ParseStart(s), TRUE)), TRUE))

\* scan::colon_or_space
RECURSIVE colon_or_space(_)
colon_or_space(s) ==
    IF s # <<>> /\ (Head(s) = ":" \/ Head(s) \in Whitespace)
    THEN colon_or_space(Tail(s)) ELSE s

\* scan::timezone_offset as the RFC 3339 reader calls it: 'Z' or 'z', or a
\* sign ('+', '-' or the minus sign U+2212), two digits of hours, colons or
\* white space, and two digits of minutes below 60: [ok, offset, rest], the
\* offset in seconds east of UTC
timezone_offset(s) ==
    IF s # <<>> /\ Head(s) \in {"Z", "z"} THEN [ok |-> TRUE, offset |-> 0, rest |-> Tail(s)]
    ELSE IF s = <<>> \/ Head(s) \notin {"+", "-", "U+2212"} THEN [ok |-> FALSE]
    ELSE LET h == Tail(s)
             m == IF Len(h) >= 2 THEN colon_or_space(SubSeq(h, 3, Len(h))) ELSE <<>>
         IN  IF /\ Len(h) >= 2 /\ AllDigits(SubSeq(h, 1, 2))
                /\ Len(m) >= 2 /\ AllDigits(SubSeq(m, 1, 2)) /\ Num(SubSeq(m, 1, 2)) <= 59
             THEN LET off == Num(SubSeq(h, 1, 2)) * 3600 + Num(SubSeq(m, 1, 2)) * 60
                  IN  [ok |-> TRUE,
                       offset |-> IF Head(s) = "+" THEN off ELSE 0 - off,
                       rest |-> SubSeq(m, 3, Len(m))]
             ELSE [ok |-> FALSE]

\* parse_rfc3339_relaxed after leading white space is skipped: "UTC" in any
\* case, or an offset
UtcOrOffset(t) ==
    IF Len(t) >= 3 /\ t[1] \in {"U", "u"} /\ t[2] \in {"T", "t"} /\ t[3] \in {"C", "c"}
    THEN [ok |-> TRUE, offset |-> 0, rest |-> SubSeq(t, 4, Len(t))]
    ELSE timezone_offset(t)

\* the offset read, when white space only follows it and it is less than a
\* day: Some(seconds east of UTC) or None
WholeOffset(o) ==
    IF o.ok /\ TrimStart(o.rest) = <<>> /\ o.offset > 0 - 86400 /\ o.offset < 86400
    THEN Some(o.offset)
    ELSE None

\* the text after the time of an RFC 3339 timestamp: white space, then "UTC"
\* or an offset, then white space only
ParseOffset(r) == WholeOffset(UtcOrOffset(TrimStart(r)))

\* the local date and time f moved west by the offset, when there is one and
\* the day stays within NaiveDate's range: Some([days, secs, nanos]) or None
SubOffset(f, offset) ==
    IF offset = None THEN None
    ELSE IF f.days + ((f.secs - offset[1]) \div 86400)
            \notin DaysFromCivil(MinYear, 1, 1)..DaysFromCivil(MaxYear, 12, 31)
    THEN None
    ELSE Some([days |-> f.days + ((f.secs - offset[1]) \div 86400),
               secs |-> (f.secs - offset[1]) % 86400,
               nanos |-> f.nanos])

\* the instant of the fields read: with the offset that follows them when
\* the text is zoned; taken as UTC, with nothing after them, when it is not
WithOffset(f, zoned) ==
    IF ~f.ok THEN None
    ELSE IF zoned THEN SubOffset(f, ParseOffset(f.rest))
    ELSE SubOffset(f, IF f.rest = <<>> THEN Some(0) ELSE None)

\* s.parse::<DateTime<Utc>>(): RFC 3339 with its offset, converted to UTC
ParseRfc3339(s) == WithOffset(ParseRfc3339Fields(s), TRUE)

\* NaiveDateTime::parse_from_str(s, "%Y-%m-%dT%H:%M:%S%.f"), taken as UTC
ParseNaive(s) == WithOffset(ParseDateTimeFields(s), FALSE)

\* DateTime::parse_from_str(s, "%Y-%m-%dT%H:%M:%S%.fZ"): the format holds a
\* literal Z and no offset item, so chrono has no offset to build a
\* DateTime<FixedOffset> from and the call fails on every input
ParseWithLiteralZ(s) == None

\* the result of the first of the three attempts that succeeds, or
\* InvalidTimestamp with the text
FirstParsed(s, rfc3339, naive, with_z) ==
    IF rfc3339 # None THEN [ok |-> TRUE, val |-> rfc3339[1]]
    ELSE IF naive # None THEN [ok |-> TRUE, val |-> naive[1]]
    ELSE IF with_z # None THEN [ok |-> TRUE, val |-> with_z[1]]
    ELSE [ok |-> FALSE, err |-> [kind |-> "InvalidTimestamp", text |-> s]]

\* ParseResult<DateTime<Utc>>
parse_timestamp(s) == FirstParsed(s, ParseRfc3339(s), ParseNaive(s), ParseWithLiteralZ(s))

(***************************************************************************)
(* parser/mod.rs                                                           *)
(***************************************************************************)
\* the arms of the match in parse_entry_type
MatchEntryType(u) ==
    CASE u = <<"I","N","F","O">> -> "Info"
      [] u = <<"W","A","R","N">> -> "Warning"
      [] u = <<"W","A","R","N","I","N","G">> -> "Warning"
      [] u = <<"E","R","R","O","R">> -> "Error"
      [] u = <<"A","G","E","N","T">> -> "AgentInvocation"
      [] u = <<"D","E","C","I","S","I","O","N">> -> "Decision"
      [] OTHER -> "Unknown"

\* parse_entry_type matching the level text as written, without to_uppercase
parse_entry_type_case_sensitive(s) == MatchEntryType(s)

parse_entry_type(s) == MatchEntryType(ToUppercase(s))

MalformedEntry(details) ==
    [ok |-> FALSE, err |-> [kind |-> "MalformedEntry", line |-> 0, details |-> details]]

\* the (entry_type, message) pair of parse_log_entry, from the trimmed rest
LevelAndMessage(rest) ==
    LET colon_pos == Find(rest, ":")
    IN  IF colon_pos # None
        THEN [entry_type |-> parse_entry_type(Trim(Slice(rest, 0, colon_pos[1]))),
              message |-> Trim(Slice(rest, colon_pos[1] + 1, Len(rest)))]
        ELSE [entry_type |-> "Unknown", message |-> rest]

\* the end of parse_log_entry: the error of parse_timestamp passed on by '?',
\* or the LogEntry of the timestamp ts and the (entry_type, message) pair lm
LogEntryOf(ts, lm) ==
    IF ~ts.ok THEN [ok |-> FALSE, err |-> ts.err]
    ELSE [ok |-> TRUE,
          entry |-> [timestamp |-> ts.val,
                     entry_type |-> lm.entry_type,
                     message |-> lm.message,
                     agent_name |-> None,
                     duration_ms |-> None]]

\* parse_log_entry without the starts_with('[') test
parse_log_entry_no_open_check(l) ==
    LET timestamp_end == Find(l, "]")
    IN  IF timestamp_end = None THEN MalformedEntry("No closing ']' for timestamp")
        ELSE LogEntryOf(parse_timestamp(Slice(l, 1, timestamp_end[1])),
                        LevelAndMessage(Trim(Slice(l, timestamp_end[1] + 1, Len(l)))))

\* parse_log_entry taking the agent name of an AGENT line from its message
parse_log_entry_agent_named(l) ==
    IF ~StartsWith(l, "[") THEN MalformedEntry("Line doesn't start with '['")
    ELSE LET timestamp_end == Find(l, "]")
         IN  IF timestamp_end = None THEN MalformedEntry("No closing ']' for timestamp")
             ELSE LET ts   == parse_timestamp(Slice(l, 1, timestamp_end[1]))
                      rest == Trim(Slice(l, timestamp_end[1] + 1, Len(l)))
                      lm   == LevelAndMessage(rest)
                  IN  IF ~ts.ok THEN [ok |-> FALSE, err |-> ts.err]
                      ELSE [ok |-> TRUE,
                            entry |-> [timestamp |-> ts.val,
                                       entry_type |-> lm.entry_type,
                                       message |-> lm.message,
                                       agent_name |-> IF lm.entry_type = "AgentInvocation"
                                                      THEN Some(lm.message) ELSE None,
                                       duration_ms |-> None]]

parse_log_entry(l) ==
    IF ~StartsWith(l, "[") THEN MalformedEntry("Line doesn't start with '['")
    ELSE LET timestamp_end == Find(l, "]")
         IN  IF timestamp_end = None THEN MalformedEntry("No closing ']' for timestamp")
             ELSE LogEntryOf(parse_timestamp(Slice(l, 1, timestamp_end[1])),
                             LevelAndMessage(Trim(Slice(l, timestamp_end[1] + 1, Len(l)))))

\* the loop of parse_log_file from the i-th line read on (i = line_num + 1),
\* with the entries pushed and the warnings written so far
RECURSIVE ParseLines(_, _, _, _)
ParseLines(reads, i, entries, warnings) ==
    IF i > Len(reads)
    THEN [result |-> [ok |-> TRUE, entries |-> entries], warnings |-> warnings]
    ELSE IF ~reads[i].ok
    THEN [result |-> [ok |-> FALSE, err |-> [kind |-> "Io"]], warnings |-> warnings]
    ELSE IF Trim(reads[i].text) = <<>>
    THEN ParseLines(reads, i + 1, entries, warnings)
    ELSE LET r == parse_log_entry(reads[i].text)
         IN  IF r.ok
             THEN ParseLines(reads, i + 1, Append(entries, r.entry), warnings)
             ELSE ParseLines(reads, i + 1, entries,
                             Append(warnings, [line |-> i, reason |-> r.err]))

\* the loop with the line parser's error propagated instead of reported
RECURSIVE ParseLinesStrict(_, _, _, _)
ParseLinesStrict(reads, i, entries, warnings) ==
    IF i > Len(reads)
    THEN [result |-> [ok |-> TRUE, entries |-> entries], warnings |-> warnings]
    ELSE IF ~reads[i].ok
    THEN [result |-> [ok |-> FALSE, err |-> [kind |-> "Io"]], warnings |-> warnings]
    ELSE IF Trim(reads[i].text) = <<>>
    THEN ParseLinesStrict(reads, i + 1, entries, warnings)
    ELSE LET r == parse_log_entry(reads[i].text)
         IN  IF r.ok
             THEN ParseLinesStrict(reads, i + 1, Append(entries, r.entry), warnings)
             ELSE [result |-> [ok |-> FALSE, err |-> r.err], warnings |-> warnings]

\* the loop with each entry put in front of the earlier ones
RECURSIVE ParseLinesPrepend(_, _, _, _)
ParseLinesPrepend(reads, i, entries, warnings) ==
    IF i > Len(reads)
    THEN [result |-> [ok |-> TRUE, entries |-> entries], warnings |-> warnings]
    ELSE IF ~reads[i].ok
    THEN [result |-> [ok |-> FALSE, err |-> [kind |-> "Io"]], warnings |-> warnings]
    ELSE IF Trim(reads[i].text) = <<>>
    THEN ParseLinesPrepend(reads, i + 1, entries, warnings)
    ELSE LET r == parse_log_entry(reads[i].text)
         IN  IF r.ok
             THEN ParseLinesPrepend(reads, i + 1, <<r.entry>> \o entries, warnings)
             ELSE ParseLinesPrepend(reads, i + 1, entries,
                                    Append(warnings, [line |-> i, reason |-> r.err]))

\* the loop with a line that fails to read skipped instead of propagated
RECURSIVE ParseLinesLenient(_, _, _, _)
ParseLinesLenient(reads, i, entries, warnings) ==
    IF i > Len(reads)
    THEN [result |-> [ok |-> TRUE, entries |-> entries], warnings |-> warnings]
    ELSE IF ~reads[i].ok
    THEN ParseLinesLenient(reads, i + 1, entries, warnings)
    ELSE IF Trim(reads[i].text) = <<>>
    THEN ParseLinesLenient(reads, i + 1, entries, warnings)
    ELSE LET r == parse_log_entry(reads[i].text)
         IN  IF r.ok
             THEN ParseLinesLenient(reads, i + 1, Append(entries, r.entry), warnings)
             ELSE ParseLinesLenient(reads, i + 1, entries,
                                    Append(warnings, [line |-> i, reason |-> r.err]))

\* the loop with line_num in the warning, not line_num + 1
RECURSIVE ParseLinesZeroBased(_, _, _, _)
ParseLinesZeroBased(reads, i, entries, warnings) ==
    IF i > Len(reads)
    THEN [result |-> [ok |-> TRUE, entries |-> entries], warnings |-> warnings]
    ELSE IF ~reads[i].ok
    THEN [result |-> [ok |-> FALSE, err |-> [kind |-> "Io"]], warnings |-> warnings]
    ELSE IF Trim(reads[i].text) = <<>>
    THEN ParseLinesZeroBased(reads, i + 1, entries, warnings)
    ELSE LET r == parse_log_entry(reads[i].text)
         IN  IF r.ok
             THEN ParseLinesZeroBased(reads, i + 1, Append(entries, r.entry), warnings)
             ELSE ParseLinesZeroBased(reads, i + 1, entries,
                                      Append(warnings, [line |-> i - 1, reason |-> r.err]))

parse_log_file_lenient(f) ==
    IF ~f.exists
    THEN [result |-> [ok |-> FALSE, err |-> [kind |-> "FileNotFound", path |-> f.path]],
          warnings |-> <<>>]
    ELSE ParseLinesLenient(f.reads, 1, <<>>, <<>>)

parse_log_file_zero_based(f) ==
    IF ~f.exists
    THEN [result |-> [ok |-> FALSE, err |-> [kind |-> "FileNotFound", path |-> f.path]],
          warnings |-> <<>>]
    ELSE ParseLinesZeroBased(f.reads, 1, <<>>, <<>>)

parse_log_file_strict(f) ==
    IF ~f.exists
    THEN [result |-> [ok |-> FALSE, err |-> [kind |-> "FileNotFound", path |-> f.path]],
          warnings |-> <<>>]
    ELSE ParseLinesStrict(f.reads, 1, <<>>, <<>>)

parse_log_file_prepend(f) ==
    IF ~f.exists
    THEN [result |-> [ok |-> FALSE, err |-> [kind |-> "FileNotFound", path |-> f.path]],
          warnings |-> <<>>]
    ELSE ParseLinesPrepend(f.reads, 1, <<>>, <<>>)

\* ParseResult<Vec<LogEntry>>, with the warnings eprintln! wrote during the call
parse_log_file(f) ==
    IF ~f.exists
    THEN [result |-> [ok |-> FALSE, err |-> [kind |-> "FileNotFound", path |-> f.path]],
          warnings |-> <<>>]
    ELSE ParseLines(f.reads, 1, <<>>, <<>>)

(***************************************************************************)
(* The lines handed to the line parser: an opening, a timestamp text, a    *)
(* closing bracket or none, and a remainder built from padding, a level    *)
(* word, a colon or none, and a message.                                   *)
(***************************************************************************)
TsRfc == <<"2","0","2","5","-","1","0","-","1","8","T","1","4",":","3","0",":","4","5","Z">>
TsOffset == <<"2","0","2","5","-","1","0","-","1","8","T","1","6",":","3","0",":","4","5","+","0","2",":","0","0">>
TsNaiveMicros == <<"2","0","2","5","-","1","0","-","1","8","T","1","4",":","3","0",":","4","5",".","9","5","0","8","5","9">>
TsBadMonth == <<"2","0","2","5","-","1","3","-","1","8","T","1","4",":","3","0",":","4","5","Z">>
TsDateOnly == <<"2","0","2","5","-","1","0","-","1","8">>
TsWord == <<"b","a","d">>
\* a space for the 'T' and a lower-case 'z', which the RFC 3339 reader takes
TsLenient == <<"2","0","2","5","-","1","0","-","1","8"," ","1","4",":","3","0",":","4","5","z">>
\* one-digit fields and second 60, which both readers take
TsLeapShort == <<"2","0","2","5","-","1","-","8","T","4",":","3",":","6","0">>

TimestampTexts ==
    {TsRfc, TsOffset, TsNaiveMicros, TsBadMonth, TsDateOnly, TsWord, <<>>, TsLenient,
     TsLeapShort}

Paddings == {<<>>, <<" ">>}

LevelWords ==
    { <<"I","N","F","O">>, <<"i","n","f","o">>, <<"W","a","r","n">>,
      <<"W","A","R","N","I","N","G">>, <<"E","R","R","O","R">>, <<"a","g","e","n","t">>,
      <<"D","e","c","i","s","i","o","n">>, <<"D","E","B","U","G">>, <<>>,
      <<"U+0131","n","f","o">> }

MessageTexts ==
    {<<"o","k">>, <<" ","a",":","b"," ">>, <<>>, <<" ","[","x","]"," ","y">>,
     <<"a","g","e","n","t","=","x"," ","5","m","s">>, <<"\f","o","k","\r">>}

Remainders ==
    { p1 \o lv \o p2 \o sep \o m :
        p1 \in Paddings, lv \in LevelWords, p2 \in Paddings,
        sep \in {<<":">>, <<>>}, m \in MessageTexts }

Lines ==
    { op \o ts \o cl \o r :
        op \in {<<"[">>, <<>>, <<" ", "[">>}, ts \in TimestampTexts,
        cl \in {<<"]">>, <<>>}, r \in Remainders }

(***************************************************************************)
(* Values of the variables a specification does not use                    *)
(***************************************************************************)
EmptyMap == [n \in {} |-> None]

NoSession == [id |-> "none", entries |-> <<>>, start_time |-> None, end_time |-> None]

IdleLine == line = <<>> /\ lineOut = None

IdleFile == file = None /\ fileOut = None

IdleTiming == timing = None

IdleAgent == agent_map = EmptyMap /\ lastEntries = None /\ agents = None

IdlePattern == thresholds = None /\ patterns = None

NoPrevious == [timing |-> None, agents |-> None, patterns |-> None]

IdlePrevious == previous = NoPrevious

\* a specification in which no arithmetic can overflow
IdleOverflow == overflow_checks = FALSE /\ panicked = FALSE

\* a build with overflow checks or one without, running
AnyBuild == overflow_checks \in BOOLEAN /\ panicked = FALSE

(***************************************************************************)
(* The line parser on one line                                             *)
(***************************************************************************)
InitLine ==
    /\ line \in Lines
    /\ lineOut = None
    /\ IdleFile /\ session = NoSession /\ IdleTiming /\ IdleAgent /\ IdlePattern
    /\ IdlePrevious
    /\ IdleOverflow

CallParseLogEntry ==
    /\ lineOut = None
    /\ lineOut' = Some(parse_log_entry(line))
    /\ UNCHANGED <<line, file, fileOut, session, timing, agent_map,
                   lastEntries, agents, thresholds, patterns, previous,
                   overflow_checks, panicked>>

NextLine == CallParseLogEntry

SpecLine == InitLine /\ [][NextLine]_vars

(***************************************************************************)
(* The file parser on one file.  A file is absent (File::open fails) or    *)
(* gives a sequence of line reads, each a line of text or an I/O error.    *)
(***************************************************************************)
MaxLines == 3

GoodLineInfo == <<"[">> \o TsRfc \o <<"]", " ", "I","N","F","O", ":", " ", "o","k">>

GoodLineError == <<"[">> \o TsNaiveMicros \o <<"]", " ", "e","r","r","o","r", ":", " ", "x">>

BlankLine == <<>>

WhitespaceLine == <<" ", "\t">>

NoBracketLine == <<"o","o","p","s">>

BadTimestampLine == <<"[">> \o TsWord \o <<"]", " ", "I","N","F","O", ":", " ", "o","k">>

\* the last two: a form feed and a carriage return, white space only as trim
\* sees it; a line whose timestamp has a space for the 'T' and a lower-case 'z'
FileLines ==
    {GoodLineInfo, GoodLineError, BlankLine, WhitespaceLine, NoBracketLine, BadTimestampLine,
     <<"\f", "\r">>,
     <<"[">> \o TsLenient \o <<"]", " ", "I","N","F","O", ":", " ", "o","k">>}

LineReads == {[ok |-> TRUE, text |-> l] : l \in FileLines} \cup {[ok |-> FALSE]}

RECURSIVE SeqsUpTo(_, _)
SeqsUpTo(S, n) ==
    IF n = 0 THEN {<<>>}
    ELSE LET shorter == SeqsUpTo(S, n - 1)
         IN  shorter \cup {Append(q, x) : q \in {t \in shorter : Len(t) = n - 1}, x \in S}

Files ==
    {[path |-> p, exists |-> FALSE] : p \in {"a.log", "b.log"}}
    \cup {[path |-> "a.log", exists |-> TRUE, reads |-> rs] : rs \in SeqsUpTo(LineReads, MaxLines)}

InitFile ==
    /\ file \in Files
    /\ fileOut = None
    /\ IdleLine /\ session = NoSession /\ IdleTiming /\ IdleAgent /\ IdlePattern
    /\ IdlePrevious
    /\ IdleOverflow

CallParseLogFile ==
    /\ fileOut = None
    /\ fileOut' = Some(parse_log_file(file))
    /\ UNCHANGED <<line, lineOut, file, session, timing, agent_map,
                   lastEntries, agents, thresholds, patterns, previous,
                   overflow_checks, panicked>>

NextFile == CallParseLogFile

SpecFile == InitFile /\ [][NextFile]_vars

(***************************************************************************)
(* Properties of the line parser (SpecLine)                                *)
(***************************************************************************)
Contains(s, c) == \E i \in 1..Len(s) : s[i] = c

FirstIndex(s, c) == CHOOSE i \in 1..Len(s) : s[i] = c /\ \A j \in 1..(i - 1) : s[j] # c

Bracketed(l) == l # <<>> /\ l[1] = "[" /\ Contains(l, "]")

\* the text between the opening bracket and the first closing bracket
TimestampTextOf(l) == SubSeq(l, 2, FirstIndex(l, "]") - 1)

\* the text after the first closing bracket, trimmed
RemainderOf(l) == Trim(SubSeq(l, FirstIndex(l, "]") + 1, Len(l)))

\* C3: a line that does not start with '[' or holds no ']' gives a MalformedEntry
\* error; every failure is an error value alone, with no entry beside it; a
\* bracketed line whose timestamp text matches no accepted format gives
\* InvalidTimestamp carrying exactly that text.
C3_MalformedLineFails ==
    lineOut # None =>
        LET r == lineOut[1]
        IN  /\ ~Bracketed(line) => (~r.ok /\ r.err.kind = "MalformedEntry")
            /\ ~r.ok => DOMAIN r = {"ok", "err"}
            /\ (Bracketed(line) /\ ~parse_timestamp(TimestampTextOf(line)).ok) =>
                   (~r.ok /\ r.err = [kind |-> "InvalidTimestamp",
                                      text |-> TimestampTextOf(line)])

\* a parsed line that opens with " [": it holds both brackets and a valid
\* timestamp, and fails as malformed because '[' is not its first character
C3_Witness ==
    /\ lineOut # None
    /\ Len(line) > 2 /\ line[1] = " " /\ line[2] = "[" /\ Contains(line, "]")
    /\ parse_timestamp(SubSeq(line, 3, FirstIndex(line, "]") - 1)).ok
    /\ ~lineOut[1].ok /\ lineOut[1].err.kind = "MalformedEntry"

LevelTable ==
    { << <<"I","N","F","O">>, "Info" >>,
      << <<"W","A","R","N">>, "Warning" >>,
      << <<"W","A","R","N","I","N","G">>, "Warning" >>,
      << <<"E","R","R","O","R">>, "Error" >>,
      << <<"A","G","E","N","T">>, "AgentInvocation" >>,
      << <<"D","E","C","I","S","I","O","N">>, "Decision" >> }

KindOfLevel(text) ==
    LET u == ToUppercase(text)
    IN  IF \E p \in LevelTable : p[1] = u
        THEN (CHOOSE p \in LevelTable : p[1] = u)[2]
        ELSE "Unknown"

\* C4: on every line that parses, the kind is the table's kind for the trimmed
\* text before the first ':' of the remainder, compared without regard to case
\* (the two are equal once upper-cased, as Unicode upper-cases them), and the
\* message is the trimmed text after that first ':'; a remainder without ':'
\* gives Unknown and the whole trimmed remainder as the message.
C4_LevelAndMessage ==
    (lineOut # None /\ lineOut[1].ok) =>
        LET e   == lineOut[1].entry
            rem == RemainderOf(line)
        IN  IF Contains(rem, ":")
            THEN LET i == FirstIndex(rem, ":")
                 IN  /\ e.entry_type = KindOfLevel(Trim(SubSeq(rem, 1, i - 1)))
                     /\ e.message = Trim(SubSeq(rem, i + 1, Len(rem)))
            ELSE e.entry_type = "Unknown" /\ e.message = rem

\* "[2025-10-18T14:30:45Z] Warn : a:b " parsed: a mixed-case level with padding
\* before the colon and a second colon kept in the message
C4_Witness ==
    /\ line = <<"[">> \o TsRfc \o <<"]", " ", "W","a","r","n", " ", ":", " ", "a", ":", "b", " ">>
    /\ lineOut # None /\ lineOut[1].ok
    /\ lineOut[1].entry.entry_type = "Warning"
    /\ lineOut[1].entry.message = <<"a", ":", "b">>

(***************************************************************************)
(* Properties of the file parser (SpecFile)                                *)
(***************************************************************************)
Readable(f) == f.exists /\ \A i \in 1..Len(f.reads) : f.reads[i].ok

BlankAt(f) == {i \in 1..Len(f.reads) : Trim(f.reads[i].text) = <<>>}

RejectedAt(f) ==
    {i \in 1..Len(f.reads) : i \notin BlankAt(f) /\ ~parse_log_entry(f.reads[i].text).ok}

AcceptedAt(f) ==
    {i \in 1..Len(f.reads) : i \notin BlankAt(f) /\ parse_log_entry(f.reads[i].text).ok}

\* the k-th smallest element of a set of numbers
NthOf(S, k) == CHOOSE x \in S : Cardinality({y \in S : y < x}) = k - 1

\* C1: a file that opens and whose N lines all read gives success with exactly
\* N - K - B entries, B the blank lines and K the non-blank lines the line
\* parser rejects.
C1_EntryCount ==
    (fileOut # None /\ Readable(file)) =>
        /\ fileOut[1].result.ok
        /\ Len(fileOut[1].result.entries) =
               Len(file.reads) - Cardinality(RejectedAt(file)) - Cardinality(BlankAt(file))

\* a parsed file of three lines, a malformed one first, then a blank one and
\* a good one: one entry
C1_Witness ==
    /\ fileOut # None /\ Readable(file) /\ Len(file.reads) = 3
    /\ RejectedAt(file) = {1} /\ BlankAt(file) = {2}
    /\ fileOut[1].result.ok /\ Len(fileOut[1].result.entries) = 1

\* C2: the entries returned are the line parser's successes over the non-blank
\* lines in file order: the k-th entry is the entry of the k-th accepted line.
C2_FileOrder ==
    (fileOut # None /\ fileOut[1].result.ok) =>
        LET got == fileOut[1].result.entries
            acc == AcceptedAt(file)
        IN  /\ Len(got) = Cardinality(acc)
            /\ \A k \in 1..Len(got) :
                   got[k] = parse_log_entry(file.reads[NthOf(acc, k)].text).entry

\* two different good lines with a malformed line between them: two entries,
\* in the order of their lines
C2_Witness ==
    /\ fileOut # None /\ file.exists /\ Len(file.reads) = 3
    /\ file.reads[1] = [ok |-> TRUE, text |-> GoodLineError]
    /\ file.reads[2] = [ok |-> TRUE, text |-> NoBracketLine]
    /\ file.reads[3] = [ok |-> TRUE, text |-> GoodLineInfo]
    /\ fileOut[1].result.ok /\ Len(fileOut[1].result.entries) = 2
    /\ fileOut[1].result.entries[1].entry_type = "Error"
    /\ fileOut[1].result.entries[2].entry_type = "Info"

(***************************************************************************)
(* chrono arithmetic on instants                                           *)
(***************************************************************************)
\* the instant secs seconds and nanos nanoseconds after 1970-01-01T00:00:00Z
Instant(secs, nanos) == [days |-> secs \div 86400, secs |-> secs % 86400, nanos |-> nanos]

\* Ord for DateTime<Utc>: by date, then second of the day, then nanosecond
Earlier(a, b) ==
    \/ a.days < b.days
    \/ a.days = b.days /\ a.secs < b.secs
    \/ a.days = b.days /\ a.secs = b.secs /\ a.nanos < b.nanos

\* a - b (NaiveDateTime::signed_duration_since): a TimeDelta [secs, nanos], its
\* nanos kept within 0..999999999.  A leap second held by the side with the
\* smaller second of the day counts as one more second between the two.
TimeSub(a, b) ==
    LET adjust == IF a.secs > b.secs THEN (IF b.nanos >= 1000000000 THEN 1 ELSE 0)
                  ELSE IF a.secs < b.secs THEN (IF a.nanos >= 1000000000 THEN 0 - 1 ELSE 0)
                  ELSE 0
        whole  == (a.days - b.days) * 86400 + (a.secs - b.secs) + adjust
        frac   == a.nanos - b.nanos
    IN  [secs |-> whole + (frac \div 1000000000), nanos |-> frac % 1000000000]

\* Rust's integer division, which rounds toward zero
TruncDiv(a, b) == IF a >= 0 THEN a \div b ELSE 0 - ((0 - a) \div b)

\* TimeDelta::num_milliseconds: num_seconds() * 1000 + subsec_nanos() / 1_000_000
NumMilliseconds(d) ==
    LET num_seconds  == IF d.secs < 0 /\ d.nanos > 0 THEN d.secs + 1 ELSE d.secs
        subsec_nanos == IF d.secs < 0 /\ d.nanos > 0 THEN d.nanos - 1000000000 ELSE d.nanos
    IN  num_seconds * 1000 + TruncDiv(subsec_nanos, 1000000)

(***************************************************************************)
(* u32 and u64.  An unsigned integer is the sequence of its 16-bit limbs,  *)
(* the lowest first: two limbs for a u32, four for a u64.                  *)
(***************************************************************************)
\* the u32 and the u64 with the value n, for n below 2^31
U32(n) == <<n % 65536, n \div 65536>>

U64(n) == <<n % 65536, n \div 65536, 0, 0>>

\* a + b + carry, limb by limb; the last limb of the result is the carry out
RECURSIVE AddLimbs(_, _, _)
AddLimbs(a, b, carry) ==
    IF a = <<>> THEN <<carry>>
    ELSE <<(Head(a) + Head(b) + carry) % 65536>>
         \o AddLimbs(Tail(a), Tail(b), (Head(a) + Head(b) + carry) \div 65536)

\* a += b: the sum cut to the width of a, and whether it went past that width
AddAssign(a, b) ==
    LET sum == AddLimbs(a, b, 0)
    IN  [value |-> SubSeq(sum, 1, Len(a)), overflow |-> sum[Len(a) + 1] = 1]

\* a call returns, or it panics: an arithmetic overflow panics in a build with
\* overflow checks (the dev profile) and wraps in one without (the release
\* profile).  The value is what the call returns, or the receiver as the panic
\* leaves it.
Returned(v) == [panicked |-> FALSE, value |-> v]

PanickedAt(v) == [panicked |-> TRUE, value |-> v]

\* the panic of a call whose receiver is dropped by the unwinding
Panicked == [panicked |-> TRUE]

(***************************************************************************)
(* f64: IEEE 754 binary64.  A number is sign * (hi * 2^27 + lo) * 2^exp    *)
(* with the 53-bit significand split in hi (26 bits) and lo (27 bits); a   *)
(* normal number has hi >= 2^25, a subnormal one has exp = -1074.  Two f64 *)
(* are the same value exactly when they are equal here.                    *)
(***************************************************************************)
Half == 2^27

F64Number(sign, exp, hi, lo) ==
    [kind |-> "number", sign |-> sign, exp |-> exp, hi |-> hi, lo |-> lo]

F64Zero(sign) == [kind |-> "zero", sign |-> sign, exp |-> 0, hi |-> 0, lo |-> 0]

F64Infinity(sign) == [kind |-> "infinity", sign |-> sign, exp |-> 0, hi |-> 0, lo |-> 0]

F64NaN == [kind |-> "NaN", sign |-> 1, exp |-> 0, hi |-> 0, lo |-> 0]

\* q.hi * 2^27 + q.lo shifted n >= 1 places to the right: guard is the last
\* bit shifted out, sticky tells whether a bit below it was set
ShiftRight(q, n) ==
    IF n <= 27
    THEN [hi |-> q.hi \div 2^n,
          lo |-> (q.hi % 2^n) * 2^(27 - n) + q.lo \div 2^n,
          guard |-> (q.lo \div 2^(n - 1)) % 2,
          sticky |-> q.sticky \/ q.lo % 2^(n - 1) # 0]
    ELSE IF n <= 54
    THEN [hi |-> 0,
          lo |-> q.hi \div 2^(n - 27),
          guard |-> (q.hi \div 2^(n - 28)) % 2,
          sticky |-> q.sticky \/ q.lo # 0 \/ q.hi % 2^(n - 28) # 0]
    ELSE [hi |-> 0, lo |-> 0, guard |-> 0, sticky |-> TRUE]

\* hi * 2^27 + lo shifted n places to the left, no bit lost
ShiftLeft(hi, lo, n) ==
    IF n <= 27
    THEN [hi |-> hi * 2^n + lo \div 2^(27 - n), lo |-> (lo % 2^(27 - n)) * 2^n]
    ELSE [hi |-> lo * 2^(n - 27), lo |-> 0]

\* round to nearest, ties to even: one is added when the guard bit is set and
\* a lower bit or the last bit kept is set too
Nearest(s) ==
    IF ~(s.guard = 1 /\ (s.sticky \/ s.lo % 2 = 1)) THEN [hi |-> s.hi, lo |-> s.lo]
    ELSE IF s.lo + 1 = Half THEN [hi |-> s.hi + 1, lo |-> 0]
    ELSE [hi |-> s.hi, lo |-> s.lo + 1]

\* the f64 with the significand m, which is at most 2^53, at the exponent exp
Pack(sign, exp, m) ==
    IF m.hi = 0 /\ m.lo = 0 THEN F64Zero(sign)
    ELSE IF m.hi = 2^26
         THEN (IF exp + 1 > 971 THEN F64Infinity(sign) ELSE F64Number(sign, exp + 1, 2^25, 0))
         ELSE IF exp > 971 THEN F64Infinity(sign) ELSE F64Number(sign, exp, m.hi, m.lo)

\* the f64 nearest to sign * (q.hi * 2^27 + q.lo + a fraction) * 2^exp, where
\* q.hi * 2^27 + q.lo has 54 significant bits and q.sticky tells whether the
\* fraction is not 0; below 2^-1022 the result is a subnormal number or 0
RoundToF64(sign, exp, q) ==
    Pack(sign, IF exp + 1 >= 0 - 1074 THEN exp + 1 ELSE 0 - 1074,
         Nearest(ShiftRight(q, IF exp + 1 >= 0 - 1074 THEN 1 ELSE 0 - 1074 - exp)))

\* the number of bits of n, 0 for 0
BitLength(n) == CHOOSE k \in 0..27 : n < 2^k /\ (k = 0 \/ n >= 2^(k - 1))

\* the bits of an unsigned integer, the highest first
LimbsBits(l) ==
    [i \in 1..(16 * Len(l)) |->
        (l[Len(l) - ((i - 1) \div 16)] \div 2^(15 - ((i - 1) % 16))) % 2]

\* the bits from the first 1 on
StripZeros(b) ==
    SubSeq(b, CHOOSE i \in 1..(Len(b) + 1) :
                  /\ i = Len(b) + 1 \/ b[i] = 1
                  /\ \A j \in 1..(i - 1) : b[j] = 0,
           Len(b))

\* the number whose bits are b[from..to], the places after the end of b being 0
RECURSIVE BitsVal(_, _, _)
BitsVal(b, from, to) ==
    IF to < from THEN 0
    ELSE 2 * BitsVal(b, from, to - 1) + (IF to <= Len(b) THEN b[to] ELSE 0)

\* the f64 nearest to sign * the natural number with the bits b, b[1] = 1
BitsToF64(sign, b) ==
    IF b = <<>> THEN F64Zero(sign)
    ELSE RoundToF64(sign, Len(b) - 54,
                    [hi |-> BitsVal(b, 1, 27), lo |-> BitsVal(b, 28, 54),
                     sticky |-> \E i \in 55..Len(b) : b[i] = 1])

\* u32 as f64, u64 as f64
unsigned_as_f64(l) == BitsToF64(1, StripZeros(LimbsBits(l)))

\* i64 as f64, usize as f64 and the f64 literals 3.0, 1000.0, .., for an
\* integer i of the model
int_as_f64(i) ==
    BitsToF64(IF i < 0 THEN 0 - 1 ELSE 1, StripZeros(LimbsBits(U32(IF i < 0 THEN 0 - i ELSE i))))

\* x with its significand shifted n places to the left
Shifted(x, n) == [exp |-> x.exp - n] @@ ShiftLeft(x.hi, x.lo, n)

\* the significand of x brought to 53 bits, the exponent lowered to match
Normal(x) ==
    IF x.hi >= 2^25 THEN [exp |-> x.exp, hi |-> x.hi, lo |-> x.lo]
    ELSE Shifted(x, IF x.hi > 0 THEN 26 - BitLength(x.hi) ELSE 53 - BitLength(x.lo))

\* one step of the long division by d: the next bit of the quotient q is 1
\* when d fits in what is left, r, and what is left after that is doubled
DivideStep(st, d) ==
    IF st.rh > d.hi \/ (st.rh = d.hi /\ st.rl >= d.lo)
    THEN [rh |-> 2 * (IF st.rl >= d.lo THEN st.rh - d.hi ELSE st.rh - d.hi - 1)
                 + (2 * ((st.rl - d.lo) % Half)) \div Half,
          rl |-> (2 * ((st.rl - d.lo) % Half)) % Half,
          qh |-> 2 * st.qh + (2 * st.ql + 1) \div Half,
          ql |-> (2 * st.ql + 1) % Half]
    ELSE [rh |-> 2 * st.rh + (2 * st.rl) \div Half,
          rl |-> (2 * st.rl) % Half,
          qh |-> 2 * st.qh + (2 * st.ql) \div Half,
          ql |-> (2 * st.ql) % Half]

\* n more steps, three at a time; once nothing is left the bits to come are 0
RECURSIVE DivideBits(_, _, _)
DivideBits(st, d, n) ==
    IF st.rh = 0 /\ st.rl = 0
    THEN [sticky |-> FALSE] @@ ShiftLeft(st.qh, st.ql, n)
    ELSE IF n = 0 THEN [hi |-> st.qh, lo |-> st.ql, sticky |-> TRUE]
    ELSE DivideBits(DivideStep(DivideStep(DivideStep(st, d), d), d), d, n - 3)

\* the quotient of the 53-bit significands of x and y in 54 bits, rounded:
\* when x's is the smaller, the first bit of the quotient is 0 and the
\* division starts one place later
DivideNumbers(sign, x, y) ==
    IF x.hi > y.hi \/ (x.hi = y.hi /\ x.lo >= y.lo)
    THEN RoundToF64(sign, x.exp - y.exp - 53,
                    DivideBits([rh |-> x.hi, rl |-> x.lo, qh |-> 0, ql |-> 0], y, 54))
    ELSE RoundToF64(sign, x.exp - y.exp - 54,
                    DivideBits([rh |-> 2 * x.hi + (2 * x.lo) \div Half, rl |-> (2 * x.lo) % Half,
                                qh |-> 0, ql |-> 0], y, 54))

\* x / y on f64
f64_div(x, y) ==
    IF x.kind = "NaN" \/ y.kind = "NaN" THEN F64NaN
    ELSE IF x.kind = "infinity"
         THEN (IF y.kind = "infinity" THEN F64NaN ELSE F64Infinity(x.sign * y.sign))
    ELSE IF y.kind = "infinity" THEN F64Zero(x.sign * y.sign)
    ELSE IF x.kind = "zero"
         THEN (IF y.kind = "zero" THEN F64NaN ELSE F64Zero(x.sign * y.sign))
    ELSE IF y.kind = "zero" THEN F64Infinity(x.sign * y.sign)
    ELSE DivideNumbers(x.sign * y.sign, Normal(x), Normal(y))

\* where |x| stands among the sizes: 0, then the numbers by exponent and
\* significand, then infinity
Magnitude(x) ==
    IF x.kind = "zero" THEN <<0, 0, 0, 0>>
    ELSE IF x.kind = "infinity" THEN <<2, 0, 0, 0>>
    ELSE <<1, x.exp, x.hi, x.lo>>

LexLess(a, b) == \E i \in 1..Len(a) : a[i] < b[i] /\ \A j \in 1..(i - 1) : a[j] = b[j]

\* x < y on f64: false when either is NaN, and -0.0 is not below 0.0
f64_lt(x, y) ==
    /\ x.kind # "NaN" /\ y.kind # "NaN"
    /\ ~(x.kind = "zero" /\ y.kind = "zero")
    /\ IF x.sign # y.sign THEN x.sign < y.sign
       ELSE IF x.sign = 1 THEN LexLess(Magnitude(x), Magnitude(y))
       ELSE LexLess(Magnitude(y), Magnitude(x))

\* x == y on f64: false when either is NaN, and -0.0 == 0.0
f64_eq(x, y) ==
    /\ x.kind # "NaN" /\ y.kind # "NaN"
    /\ (x.kind = "zero" /\ y.kind = "zero") \/ x = y

\* x > y and x >= y on f64
f64_gt(x, y) == f64_lt(y, x)

f64_ge(x, y) == f64_lt(y, x) \/ f64_eq(x, y)

\* d.num_milliseconds() as f64 / 1000.0, for ms = d.num_milliseconds()
Seconds(ms) == f64_div(int_as_f64(ms), int_as_f64(1000))

(***************************************************************************)
(* analyzer/mod.rs: TimingAnalyzer                                         *)
(***************************************************************************)
Timestamps(entries) == {entries[i].timestamp : i \in 1..Len(entries)}

\* Iterator::min and Iterator::max over the timestamps
MinTimestamp(entries) ==
    CHOOSE t \in Timestamps(entries) : \A u \in Timestamps(entries) : ~Earlier(u, t)

MaxTimestamp(entries) ==
    CHOOSE t \in Timestamps(entries) : \A u \in Timestamps(entries) : ~Earlier(t, u)

\* the duration taken from the first and the last entry of the sequence
calculate_duration_first_last(entries) ==
    IF entries = <<>> THEN None
    ELSE Some(Seconds(NumMilliseconds(TimeSub(entries[Len(entries)].timestamp,
                                              entries[1].timestamp))))

\* Option<f64>
calculate_duration(entries) ==
    IF entries = <<>> THEN None
    ELSE Some(Seconds(NumMilliseconds(TimeSub(MaxTimestamp(entries), MinTimestamp(entries)))))

\* the sum over windows(2) of the deltas' num_milliseconds, from pair i on
RECURSIVE SumDeltaMillis(_, _)
SumDeltaMillis(entries, i) ==
    IF i >= Len(entries) THEN 0
    ELSE NumMilliseconds(TimeSub(entries[i + 1].timestamp, entries[i].timestamp))
         + SumDeltaMillis(entries, i + 1)

\* the average of the sizes of the deltas, their signs dropped
RECURSIVE SumAbsDeltaMillis(_, _)
SumAbsDeltaMillis(entries, i) ==
    IF i >= Len(entries) THEN 0
    ELSE LET ms == NumMilliseconds(TimeSub(entries[i + 1].timestamp, entries[i].timestamp))
         IN  (IF ms < 0 THEN 0 - ms ELSE ms) + SumAbsDeltaMillis(entries, i + 1)

avg_time_between_entries_abs(entries) ==
    IF Len(entries) < 2 THEN F64Zero(1)
    ELSE f64_div(Seconds(SumAbsDeltaMillis(entries, 1)), int_as_f64(Len(entries) - 1))

\* the average with the sum divided by the number of entries
avg_time_between_entries_per_entry(entries) ==
    IF Len(entries) < 2 THEN F64Zero(1)
    ELSE f64_div(Seconds(SumDeltaMillis(entries, 1)), int_as_f64(Len(entries)))

\* (total_ms as f64 / 1000.0) / count as f64
avg_time_between_entries(entries) ==
    IF Len(entries) < 2 THEN F64Zero(1)
    ELSE LET total_ms == SumDeltaMillis(entries, 1)
             count    == Len(entries) - 1
         IN  f64_div(Seconds(total_ms), int_as_f64(count))

\* ParseResult<TimingStats>: always Ok
TimingAnalyzer_analyze(s) ==
    [ok |-> TRUE,
     stats |-> [total_duration_secs |->
                    IF calculate_duration(s.entries) = None THEN F64Zero(1)
                    ELSE calculate_duration(s.entries)[1],
                entry_count |-> Len(s.entries),
                avg_time_between_entries |-> avg_time_between_entries(s.entries)]]

(***************************************************************************)
(* main.rs: the session built from a list of entries                       *)
(***************************************************************************)
\* Utc::now(): any instant a DateTime<Utc> holds, outside a leap second, and
\* a different one at each call
Clock ==
    [days : DaysFromCivil(MinYear, 1, 1)..DaysFromCivil(MaxYear, 12, 31),
     secs : 0..86399,
     nanos : 0..999999999]

\* the readings of the clock the runs below take: an instant before, one
\* among and one after the timestamps of the entries
ClockReadings ==
    {now \in {Instant(0, 0), Instant(1000, 0),
              [days |-> 20755, secs |-> 78498, nanos |-> 899892892]} : now \in Clock}

create_session_from_entries(id, entries, now) ==
    [id |-> id,
     entries |-> entries,
     start_time |-> IF entries = <<>> THEN now ELSE entries[1].timestamp,
     end_time |-> IF entries = <<>> THEN None ELSE Some(entries[Len(entries)].timestamp)]

(***************************************************************************)
(* The timing analyzer on one session                                      *)
(***************************************************************************)
MaxEntries == 4

\* 0 s, 600 us, 1.2 ms, 10 s, 20 s, 30 s after a common origin
TimingInstants ==
    {Instant(0, 0), Instant(0, 600000), Instant(0, 1200000),
     Instant(10, 0), Instant(20, 0), Instant(30, 0)}

EntryAt(t, type, agent, duration) ==
    [timestamp |-> t, entry_type |-> type, message |-> <<"m">>,
     agent_name |-> agent, duration_ms |-> duration]

TimingEntries == {EntryAt(t, "Info", None, None) : t \in TimingInstants}

InitTiming ==
    /\ \E es \in SeqsUpTo(TimingEntries, MaxEntries), now \in ClockReadings :
           session = create_session_from_entries("timing", es, now)
    /\ timing = None
    /\ IdleLine /\ IdleFile /\ IdleAgent /\ IdlePattern
    /\ IdlePrevious
    /\ IdleOverflow

CallTimingAnalyze ==
    /\ timing = None
    /\ timing' = Some(TimingAnalyzer_analyze(session))
    /\ UNCHANGED <<line, lineOut, file, fileOut, session, agent_map,
                   lastEntries, agents, thresholds, patterns, previous,
                   overflow_checks, panicked>>

NextTiming == CallTimingAnalyze

SpecTiming == InitTiming /\ [][NextTiming]_vars

(***************************************************************************)
(* Properties of the timing analyzer (SpecTiming)                          *)
(***************************************************************************)
\* a delta in whole milliseconds rounded down, and what is left of it in ns
FloorMillis(d) == d.secs * 1000 + d.nanos \div 1000000

SubMilliNanos(d) == d.nanos % 1000000

\* a delta in whole milliseconds rounded toward zero
TruncMillis(d) ==
    IF d.secs < 0 /\ SubMilliNanos(d) # 0 THEN FloorMillis(d) + 1 ELSE FloorMillis(d)

DeltaAdd(a, b) ==
    IF a.nanos + b.nanos >= 1000000000
    THEN [secs |-> a.secs + b.secs + 1, nanos |-> a.nanos + b.nanos - 1000000000]
    ELSE [secs |-> a.secs + b.secs, nanos |-> a.nanos + b.nanos]

\* the size of the delta d in nanoseconds, in four limbs
DeltaNanos(d) ==
    LET whole == IF d.secs < 0 THEN 0 - d.secs - 1 ELSE d.secs
        part  == IF d.secs < 0 THEN 1000000000 - d.nanos ELSE d.nanos
    IN  SubSeq(AddLimbs(MulLimbs(MulLimbs(MulLimbs(U64(whole), 1000, 0), 1000, 0), 1000, 0),
                        U64(part), 0), 1, 4)

\* the delta d in seconds, nothing cut: the f64 nearest to it
ExactSeconds(d) ==
    f64_div(BitsToF64(IF d.secs < 0 THEN 0 - 1 ELSE 1, StripZeros(LimbsBits(DeltaNanos(d)))),
            int_as_f64(1000000000))

IsEarliest(es, i) == \A k \in 1..Len(es) : ~Earlier(es[k].timestamp, es[i].timestamp)

IsLatest(es, j) == \A k \in 1..Len(es) : ~Earlier(es[j].timestamp, es[k].timestamp)

RECURSIVE SumExactDeltas(_, _)
SumExactDeltas(es, i) ==
    IF i >= Len(es) THEN [secs |-> 0, nanos |-> 0]
    ELSE DeltaAdd(TimeSub(es[i + 1].timestamp, es[i].timestamp), SumExactDeltas(es, i + 1))

RECURSIVE SumTruncMillis(_, _)
SumTruncMillis(es, i) ==
    IF i >= Len(es) THEN 0
    ELSE TruncMillis(TimeSub(es[i + 1].timestamp, es[i].timestamp)) + SumTruncMillis(es, i + 1)

\* C6 as stated: avg_time_between_entries is 0.0 below two entries and otherwise
\* the sum of the adjacent deltas in sequence order, in seconds, over
\* (count - 1).
C6_Original ==
    timing # None =>
        LET avg == timing[1].stats.avg_time_between_entries
            es  == session.entries
        IN  IF Len(es) < 2 THEN avg = F64Zero(1)
            ELSE avg = f64_div(ExactSeconds(SumExactDeltas(es, 1)), int_as_f64(Len(es) - 1))

\* C6 (amended): avg_time_between_entries is 0.0 below two entries and
\* otherwise the sum, over the adjacent pairs in sequence order, of each delta
\* cut toward zero to whole milliseconds, in seconds (the f64 quotient of the
\* milliseconds by 1000.0), over (count - 1); the entries are not sorted by
\* time first.
C6_AverageGap ==
    timing # None =>
        LET avg == timing[1].stats.avg_time_between_entries
            es  == session.entries
        IN  IF Len(es) < 2 THEN avg = F64Zero(1)
            ELSE avg = f64_div(f64_div(int_as_f64(SumTruncMillis(es, 1)), int_as_f64(1000)),
                               int_as_f64(Len(es) - 1))

\* analysed: entries at 10 s, 0 s, 20 s in that order; the average is
\* (-10 + 20) / 2 = 5.0, where the time-sorted order would give 10.0
C6_Witness ==
    /\ timing # None /\ Len(session.entries) = 3
    /\ session.entries[1].timestamp = Instant(10, 0)
    /\ session.entries[2].timestamp = Instant(0, 0)
    /\ session.entries[3].timestamp = Instant(20, 0)
    /\ timing[1].stats.avg_time_between_entries = int_as_f64(5)

(***************************************************************************)
(* types.rs: AgentStats.  invocation_count is a u32, total_duration_ms a   *)
(* u64 and avg_duration_ms an f64.                                         *)
(***************************************************************************)
AgentStats_new(name) ==
    [name |-> name, invocation_count |-> U32(0), total_duration_ms |-> U64(0),
     avg_duration_ms |-> F64Zero(1)]

\* the stats after the two += of add_duration, with the average given, or the
\* panic of the first += that overflows in a build with overflow checks: at
\* the count, or with the count added at the total
AddedDuration(stats, count, total, avg, checks) ==
    IF checks /\ count.overflow THEN PanickedAt(stats)
    ELSE IF checks /\ total.overflow
    THEN PanickedAt([stats EXCEPT !.invocation_count = count.value])
    ELSE Returned([name |-> stats.name,
                   invocation_count |-> count.value,
                   total_duration_ms |-> total.value,
                   avg_duration_ms |-> avg])

\* self.invocation_count += 1; self.total_duration_ms += duration_ms;
\* self.avg_duration_ms = self.total_duration_ms as f64 / self.invocation_count as f64
add_duration(stats, duration_ms, checks) ==
    AddedDuration(stats, AddAssign(stats.invocation_count, U32(1)),
                  AddAssign(stats.total_duration_ms, duration_ms),
                  f64_div(unsigned_as_f64(AddAssign(stats.total_duration_ms, duration_ms).value),
                          unsigned_as_f64(AddAssign(stats.invocation_count, U32(1)).value)),
                  checks)

\* stats.invocation_count += 1
CountInvocation(stats, count, checks) ==
    IF checks /\ count.overflow THEN PanickedAt(stats)
    ELSE Returned([stats EXCEPT !.invocation_count = count.value])

(***************************************************************************)
(* analyzer/mod.rs: AgentAnalyzer.  agent_map is a function from the agent *)
(* names seen to their AgentStats.                                         *)
(***************************************************************************)
\* agent_map.entry(name).or_insert_with(|| AgentStats::new(name))
EntryOrInsert(map, name) == IF name \in DOMAIN map THEN map[name] ELSE AgentStats_new(name)

MapInsert(map, name, stats) ==
    [n \in DOMAIN map \cup {name} |-> IF n = name THEN stats ELSE map[n]]

\* the map with the stats of name as their update, or its panic, left them
Updated(map, name, outcome) ==
    [panicked |-> outcome.panicked, value |-> MapInsert(map, name, outcome.value)]

\* a loop body that recomputes the average at every invocation, a missing
\* duration taken as 0
ProcessEntryRecomputing(map, e, checks) ==
    IF e.agent_name = None THEN Returned(map)
    ELSE Updated(map, e.agent_name[1],
                 add_duration(EntryOrInsert(map, e.agent_name[1]),
                              IF e.duration_ms # None THEN e.duration_ms[1] ELSE U64(0),
                              checks))

\* the body of the loop of process_entries for one entry
ProcessEntry(map, e, checks) ==
    IF e.agent_name = None THEN Returned(map)
    ELSE Updated(map, e.agent_name[1],
                 IF e.duration_ms # None
                 THEN add_duration(EntryOrInsert(map, e.agent_name[1]), e.duration_ms[1], checks)
                 ELSE CountInvocation(EntryOrInsert(map, e.agent_name[1]),
                                      AddAssign(EntryOrInsert(map, e.agent_name[1]).invocation_count,
                                                U32(1)),
                                      checks))

\* the loop of process_entries from the map the entries before left, or from
\* their panic
RECURSIVE ProcessRest(_, _, _)
ProcessRest(outcome, entries, checks) ==
    IF outcome.panicked \/ entries = <<>> THEN outcome
    ELSE ProcessRest(ProcessEntry(outcome.value, Head(entries), checks), Tail(entries), checks)

process_entries(map, entries, checks) == ProcessRest(Returned(map), entries, checks)

\* the sequences that hold each element of S once
RECURSIVE Orderings(_)
Orderings(S) ==
    IF S = {} THEN {<<>>}
    ELSE UNION {{<<x>> \o q : q \in Orderings(S \ {x})} : x \in S}

\* get_all_stats: the map's values in the HashMap's iteration order, which the
\* standard library leaves unspecified; every order is a possible result
get_all_stats(map) == Orderings({map[n] : n \in DOMAIN map})

get_agent_stats(map, name) == IF name \in DOMAIN map THEN Some(map[name]) ELSE None

\* Ok(temp_analyzer.get_all_stats()..collect()) in each possible order, or the
\* panic of process_entries
AnalyzeOutcomes(outcome) ==
    IF outcome.panicked THEN {Panicked}
    ELSE {Returned([ok |-> TRUE, stats |-> v]) : v \in get_all_stats(outcome.value)}

\* an analyze that processes the entries on top of the receiver's own map
AgentAnalyzer_analyze_accumulating(s, checks) ==
    AnalyzeOutcomes(process_entries(agent_map, s.entries, checks))

\* the outcomes of AgentAnalyzer::analyze: Ok when it returns
AgentAnalyzer_analyze(s, checks) ==
    AnalyzeOutcomes(process_entries(EmptyMap, s.entries, checks))

(***************************************************************************)
(* The agent analyzer on one session                                       *)
(***************************************************************************)
MaxAgentEntries == 3

AgentNames == {"a", "b"}

\* no duration, 100 ms, 200 ms and 2^63 ms
Durations == {None, Some(U64(100)), Some(U64(200)), Some(<<0, 0, 0, 32768>>)}

AgentEntries ==
    {EntryAt(Instant(0, 0), "AgentInvocation", Some(n), d) : n \in AgentNames, d \in Durations}
    \cup {EntryAt(Instant(0, 0), "Info", None, None)}

\* the analyzer called is a new one or one that has processed entries before
EarlierMaps ==
    {EmptyMap,
     process_entries(EmptyMap,
                     <<EntryAt(Instant(0, 0), "AgentInvocation", Some("b"), Some(U64(100)))>>,
                     FALSE).value}

InitAgent ==
    /\ \E es \in SeqsUpTo(AgentEntries, MaxAgentEntries), now \in ClockReadings :
           session = create_session_from_entries("agents", es, now)
    /\ agent_map \in EarlierMaps
    /\ lastEntries = None
    /\ agents = None
    /\ IdleLine /\ IdleFile /\ IdleTiming /\ IdlePattern
    /\ IdlePrevious
    /\ AnyBuild

CallAgentAnalyze ==
    /\ agents = None /\ ~panicked
    /\ \E r \in AgentAnalyzer_analyze(session, overflow_checks) :
           IF r.panicked THEN panicked' = TRUE /\ UNCHANGED agents
           ELSE agents' = Some(r.value) /\ UNCHANGED panicked
    /\ UNCHANGED <<line, lineOut, file, fileOut, session, timing, agent_map,
                   lastEntries, thresholds, patterns, previous, overflow_checks>>

NextAgent == CallAgentAnalyze

SpecAgent == InitAgent /\ [][NextAgent]_vars

(***************************************************************************)
(* A stateful agent analyzer: process_entries and clear in any order       *)
(***************************************************************************)
MaxInvocations == 4

MaxBatch == 2

\* the value of a u32 below 2^31
U32Value(l) == l[1] + 65536 * l[2]

Invocations(map) ==
    LET RECURSIVE Sum(_)
        Sum(S) == IF S = {} THEN 0
                  ELSE LET n == CHOOSE x \in S : TRUE
                       IN  U32Value(map[n].invocation_count) + Sum(S \ {n})
    IN  Sum(DOMAIN map)

Named(entries) == {i \in 1..Len(entries) : entries[i].agent_name # None}

InitAgentState ==
    /\ agent_map = EmptyMap
    /\ lastEntries = None
    /\ agents = None
    /\ session = NoSession
    /\ IdleLine /\ IdleFile /\ IdleTiming /\ IdlePattern
    /\ IdlePrevious
    /\ AnyBuild

\* the analyzer after a process_entries call with the outcome r
AfterProcessEntries(es, r) ==
    agent_map' = r.value /\ lastEntries' = Some(es) /\ panicked' = r.panicked

CallProcessEntries(es) ==
    /\ ~panicked
    /\ Invocations(agent_map) + Cardinality(Named(es)) <= MaxInvocations
    /\ AfterProcessEntries(es, process_entries(agent_map, es, overflow_checks))
    /\ UNCHANGED <<line, lineOut, file, fileOut, session, timing,
                   agents, thresholds, patterns, previous, overflow_checks>>

CallClear ==
    /\ ~panicked
    /\ agent_map' = EmptyMap
    /\ lastEntries' = None
    /\ UNCHANGED <<line, lineOut, file, fileOut, session, timing,
                   agents, thresholds, patterns, previous,
                   overflow_checks, panicked>>

NextAgentState ==
    \/ \E es \in SeqsUpTo(AgentEntries, MaxBatch) : CallProcessEntries(es)
    \/ CallClear

SpecAgentState == InitAgentState /\ [][NextAgentState]_vars

(***************************************************************************)
(* Properties of the agent analyzer (SpecAgent, SpecAgentState)            *)
(***************************************************************************)
Carrying(es, n) == {i \in 1..Len(es) : es[i].agent_name = Some(n)}

\* the sum of the durations present on the entries at the places in S, nothing
\* cut: five limbs
RECURSIVE SumDurations(_, _)
SumDurations(es, S) ==
    IF S = {} THEN <<0, 0, 0, 0, 0>>
    ELSE LET i == CHOOSE x \in S : TRUE
         IN  SubSeq(AddLimbs(SumDurations(es, S \ {i}),
                             (IF es[i].duration_ms = None THEN U64(0) ELSE es[i].duration_ms[1])
                             \o <<0>>,
                             0),
                    1, 5)

\* C7 as stated: analyze returns one AgentStats for each agent name some entry
\* carries and none besides; its invocation_count is the number of entries
\* carrying the name and its total_duration_ms the sum of the durations on
\* those entries.
C7_OnePerAgent ==
    /\ ~panicked
    /\ agents # None =>
           LET out == agents[1].stats
               es  == session.entries
           IN  /\ {out[k].name : k \in 1..Len(out)} =
                      {n \in AgentNames : Carrying(es, n) # {}}
               /\ \A k, l \in 1..Len(out) : out[k].name = out[l].name => k = l
               /\ \A k \in 1..Len(out) :
                      /\ out[k].invocation_count = U32(Cardinality(Carrying(es, out[k].name)))
                      /\ out[k].total_duration_ms \o <<0>> =
                             SumDurations(es, Carrying(es, out[k].name))

\* the average is the f64 quotient of the total by the count
AvgIsTotalOverCount(st) ==
    st.avg_duration_ms =
        f64_div(unsigned_as_f64(st.total_duration_ms), unsigned_as_f64(st.invocation_count))

\* C8 as stated: in every state of an AgentStats with invocation_count > 0 the
\* average is total_duration_ms / invocation_count.
C8_Original ==
    \A n \in DOMAIN agent_map :
        agent_map[n].invocation_count # U32(0) => AvgIsTotalOverCount(agent_map[n])

\* the record of n in the map, or the new record its first invocation starts
\* from
Before(map, n) == IF n \in DOMAIN map THEN map[n] ELSE AgentStats_new(n)

LastOf(S) == CHOOSE i \in S : \A j \in S : j <= i

\* the places of es up to the place k whose entries carry the name n
CarryingThrough(es, n, k) == {i \in Carrying(es, n) : i <= k}

\* the total of n once the entries of es up to the place k have come on top of
\* the record old, nothing cut (five limbs), and its count in 32 bits
TotalThrough(old, es, n, k) ==
    SubSeq(AddLimbs(old.total_duration_ms \o <<0>>,
                    SumDurations(es, CarryingThrough(es, n, k)), 0),
           1, 5)

CountThrough(old, es, n, k) ==
    SubSeq(AddLimbs(old.invocation_count, U32(Cardinality(CarryingThrough(es, n, k))), 0),
           1, 2)

\* the places of es whose duration takes the total of their agent beyond 64
\* bits
OverflowPlaces(map, es) ==
    {k \in Named(es) :
        /\ es[k].duration_ms # None
        /\ TotalThrough(Before(map, es[k].agent_name[1]), es, es[k].agent_name[1], k)[5] # 0}

\* the number of entries of es a process_entries call completes: all of them,
\* or in a build with overflow checks those before the first overflow place
Completed(map, es, checks) ==
    IF checks /\ OverflowPlaces(map, es) # {} THEN NthOf(OverflowPlaces(map, es), 1) - 1
    ELSE Len(es)

\* the average of n after the first done entries of es on top of the record
\* old: the total over the count, both as they stand at the last of these
\* entries that carries n with a duration, and the average of old when none
\* does
AverageThrough(old, es, n, done) ==
    LET timed == {i \in CarryingThrough(es, n, done) : es[i].duration_ms # None}
    IN  IF timed = {} THEN old.avg_duration_ms
        ELSE f64_div(unsigned_as_f64(SubSeq(TotalThrough(old, es, n, LastOf(timed)), 1, 4)),
                     unsigned_as_f64(CountThrough(old, es, n, LastOf(timed))))

\* what one process_entries call on the entries es does to the averages, and
\* whether it panics
AverageEffect(es) ==
    LET done == Completed(agent_map, es, overflow_checks)
    IN  /\ panicked' = (done < Len(es))
        /\ \A n \in DOMAIN agent_map' :
               agent_map'[n].avg_duration_ms =
                   AverageThrough(Before(agent_map, n), es, n, done)

\* C8 (amended): the average is recomputed when an invocation with a duration
\* is added and at no other time.  A process_entries call leaves each agent's
\* average at total / count (the f64 quotient of the u64 by the u32) as the two
\* stand at the last entry of the call that carries the agent with a duration,
\* the invocations without a duration before it counted; an agent the call
\* gives no duration keeps the average it had, 0.0 for a new one, whatever the
\* call adds to its count.  In a build with overflow checks the call panics at
\* the first entry whose duration takes the total beyond 64 bits, and the
\* averages are those of the entries before it; without the checks the total
\* wraps and the quotient is taken of the wrapped total.  So in every state,
\* after a panic too, the average of an agent with invocations is its total
\* over a count from 1 to its invocation_count, not always over the
\* invocation_count itself.
C8_RunningAverage ==
    /\ [](\A n \in DOMAIN agent_map :
              agent_map[n].invocation_count # U32(0) =>
                  \E c \in 1..U32Value(agent_map[n].invocation_count) :
                      agent_map[n].avg_duration_ms =
                          f64_div(unsigned_as_f64(agent_map[n].total_duration_ms),
                                  int_as_f64(c)))
    /\ [][\A es \in SeqsUpTo(AgentEntries, MaxBatch) :
              (lastEntries' = Some(es) /\ CallProcessEntries(es)) => AverageEffect(es)]_vars

\* agent "a" after durations of 100 and 200 and then, in a call of its own, an
\* invocation without duration: count 3, total 300, and the average still the
\* 150.0 of the first two
C8_Witness ==
    /\ "a" \in DOMAIN agent_map
    /\ agent_map["a"].invocation_count = U32(3)
    /\ agent_map["a"].total_duration_ms = U64(300)
    /\ agent_map["a"].avg_duration_ms = int_as_f64(150)
    /\ lastEntries # None /\ Len(lastEntries[1]) = 1
    /\ lastEntries[1][1].agent_name = Some("a") /\ lastEntries[1][1].duration_ms = None
    /\ ~panicked

\* what processing the one entry e, which carries an agent name, does
EffectOfEntry(e) ==
    LET n   == e.agent_name[1]
        old == IF n \in DOMAIN agent_map THEN agent_map[n] ELSE AgentStats_new(n)
        new == agent_map'[n]
    IN  /\ DOMAIN agent_map' = DOMAIN agent_map \cup {n}
        /\ \A m \in DOMAIN agent_map \ {n} : agent_map'[m] = agent_map[m]
        /\ new.name = n
        /\ new.invocation_count \o <<0>> = AddLimbs(old.invocation_count, U32(1), 0)
        /\ IF e.duration_ms = None
           THEN /\ new.total_duration_ms = old.total_duration_ms
                /\ new.avg_duration_ms = old.avg_duration_ms
           ELSE /\ new.total_duration_ms \o <<0>> =
                       AddLimbs(old.total_duration_ms, e.duration_ms[1], 0)
                /\ AvgIsTotalOverCount(new)

\* C9 as stated: processing an entry that carries an agent name and no duration
\* adds 1 to that agent's invocation_count and leaves its total and its average,
\* and every other agent's statistics, as they were; with a duration d it adds
\* 1 to the count, d to the total and sets the average to total / count.
C9_EntryEffect ==
    [][\A e \in AgentEntries :
           (e.agent_name # None /\ CallProcessEntries(<<e>>)) => EffectOfEntry(e)]_vars

(***************************************************************************)
(* analyzer/mod.rs: PatternAnalyzer.  The two thresholds error_burst and   *)
(* long_gap are f64, the agent-activity threshold is a usize.              *)
(***************************************************************************)
PatternAnalyzer_with_thresholds(burst, gap, activity) ==
    [error_burst_threshold |-> burst, long_gap_threshold |-> gap,
     agent_activity_threshold |-> activity]

\* error_burst_threshold: 5.0, long_gap_threshold: 300.0, agent_activity_threshold: 10
PatternAnalyzer_new ==
    PatternAnalyzer_with_thresholds(int_as_f64(5), int_as_f64(300), 10)

ErrorBurst(count, duration_secs) ==
    [kind |-> "ErrorBurst", count |-> count, duration_secs |-> duration_secs]

LongGap(duration_secs) == [kind |-> "LongGap", duration_secs |-> duration_secs]

AgentActivity(agent, count) == [kind |-> "AgentActivity", agent |-> agent, count |-> count]

NoAgentActivity == [kind |-> "NoAgentActivity"]

\* entries.iter().filter(..).collect() for the Error kind
RECURSIVE ErrorEntries(_)
ErrorEntries(entries) ==
    IF entries = <<>> THEN <<>>
    ELSE IF Head(entries).entry_type = "Error"
         THEN <<Head(entries)>> \o ErrorEntries(Tail(entries))
         ELSE ErrorEntries(Tail(entries))

\* duration_secs > 0.0 && (3.0 / duration_secs) >= self.error_burst_threshold
BurstRateReached(duration_secs, threshold) ==
    /\ f64_gt(duration_secs, F64Zero(1))
    /\ f64_ge(f64_div(int_as_f64(3), duration_secs), threshold)

\* the body of the loop over error_entries.windows(3) for one window
BurstWindow(duration_secs, threshold) ==
    IF BurstRateReached(duration_secs, threshold)
    THEN <<ErrorBurst(3, duration_secs)>> ELSE <<>>

\* the loop over error_entries.windows(3), from window w on
RECURSIVE BurstWindows(_, _, _)
BurstWindows(errs, w, threshold) ==
    IF w + 2 > Len(errs) THEN <<>>
    ELSE BurstWindow(Seconds(NumMilliseconds(TimeSub(errs[w + 2].timestamp,
                                                     errs[w].timestamp))),
                     threshold)
         \o BurstWindows(errs, w + 1, threshold)

detect_error_bursts(th, entries) ==
    IF Len(entries) < 2 THEN <<>>
    ELSE IF Len(ErrorEntries(entries)) < 2 THEN <<>>
    ELSE BurstWindows(ErrorEntries(entries), 1, th.error_burst_threshold)

\* if gap > self.long_gap_threshold { Some(LogPattern::LongGap { duration_secs: gap }) }
GapPair(gap, threshold) == IF f64_gt(gap, threshold) THEN <<LongGap(gap)>> ELSE <<>>

\* the test with >= in the place of >
GapPairInclusive(gap, threshold) == IF f64_ge(gap, threshold) THEN <<LongGap(gap)>> ELSE <<>>

RECURSIVE GapPairsInclusive(_, _, _)
GapPairsInclusive(entries, i, threshold) ==
    IF i >= Len(entries) THEN <<>>
    ELSE GapPairInclusive(Seconds(NumMilliseconds(TimeSub(entries[i + 1].timestamp,
                                                          entries[i].timestamp))),
                          threshold)
         \o GapPairsInclusive(entries, i + 1, threshold)

detect_long_gaps_inclusive(th, entries) == GapPairsInclusive(entries, 1, th.long_gap_threshold)

\* entries.windows(2).filter_map(..), from pair i on
RECURSIVE GapPairs(_, _, _)
GapPairs(entries, i, threshold) ==
    IF i >= Len(entries) THEN <<>>
    ELSE GapPair(Seconds(NumMilliseconds(TimeSub(entries[i + 1].timestamp,
                                                 entries[i].timestamp))),
                 threshold)
         \o GapPairs(entries, i + 1, threshold)

detect_long_gaps(th, entries) == GapPairs(entries, 1, th.long_gap_threshold)

\* agent_counts after the loop over the entries that carry an agent name
RECURSIVE AgentCounts(_, _)
AgentCounts(counts, entries) ==
    IF entries = <<>> THEN counts
    ELSE LET e == Head(entries)
         IN  IF e.agent_name = None THEN AgentCounts(counts, Tail(entries))
             ELSE LET a == e.agent_name[1]
                      c == IF a \in DOMAIN counts THEN counts[a] ELSE 0
                  IN  AgentCounts([n \in DOMAIN counts \cup {a} |->
                                       IF n = a THEN c + 1 ELSE counts[n]],
                                  Tail(entries))

\* the filter with > in the place of >=
detect_agent_activity_strict(th, entries) ==
    LET counts == AgentCounts([n \in {} |-> 0], entries)
    IN  Orderings({AgentActivity(a, counts[a]) :
                      a \in {n \in DOMAIN counts : counts[n] > th.agent_activity_threshold}})

\* agent_counts.into_iter().filter(..).map(..).collect(): the HashMap's
\* iteration order is unspecified, so every order of the patterns is possible
detect_agent_activity(th, entries) ==
    LET counts == AgentCounts([n \in {} |-> 0], entries)
    IN  Orderings({AgentActivity(a, counts[a]) :
                      a \in {n \in DOMAIN counts : counts[n] >= th.agent_activity_threshold}})

\* the marker given for the sessions that do have agents
detect_no_agent_activity_inverted(th, entries) ==
    LET has_agents == \E i \in 1..Len(entries) : entries[i].agent_name # None
    IN  IF has_agents /\ entries # <<>> THEN Some(NoAgentActivity) ELSE None

\* the marker given without the test that the session has entries
detect_no_agent_activity_on_empty(th, entries) ==
    LET has_agents == \E i \in 1..Len(entries) : entries[i].agent_name # None
    IN  IF ~has_agents THEN Some(NoAgentActivity) ELSE None

\* Option<LogPattern>
detect_no_agent_activity(th, entries) ==
    LET has_agents == \E i \in 1..Len(entries) : entries[i].agent_name # None
    IN  IF ~has_agents /\ entries # <<>> THEN Some(NoAgentActivity) ELSE None

\* the long gaps put before the error bursts
PatternAnalyzer_analyze_gaps_first(th, s) ==
    {[ok |-> TRUE,
      patterns |-> detect_long_gaps(th, s.entries)
                   \o detect_error_bursts(th, s.entries)
                   \o activity
                   \o detect_no_agent_activity(th, s.entries)] :
        activity \in detect_agent_activity(th, s.entries)}

\* the results PatternAnalyzer::analyze can return: always Ok
PatternAnalyzer_analyze(th, s) ==
    {[ok |-> TRUE,
      patterns |-> detect_error_bursts(th, s.entries)
                   \o detect_long_gaps(th, s.entries)
                   \o activity
                   \o detect_no_agent_activity(th, s.entries)] :
        activity \in detect_agent_activity(th, s.entries)}

(***************************************************************************)
(* The pattern analyzer on one session                                     *)
(***************************************************************************)
\* Error entries at 0, 600 us, 100 ms, 200 ms, 225 ms and 600 ms after a common
\* origin, and an Info entry
BurstEntries ==
    {EntryAt(t, "Error", None, None) :
        t \in {Instant(0, 0), Instant(0, 600000), Instant(0, 100000000),
               Instant(0, 200000000), Instant(0, 225000000), Instant(0, 600000000)}}
    \cup {EntryAt(Instant(0, 100000000), "Info", None, None)}

\* 5.0, 15.0 and 40.0 / 3.0
BurstThresholds ==
    {int_as_f64(5), int_as_f64(15), f64_div(int_as_f64(40), int_as_f64(3))}

\* Info entries at 0, 600 us, 300 s, 300 s + 600 us and 301 s after a common origin
GapEntries ==
    {EntryAt(t, "Info", None, None) :
        t \in {Instant(0, 0), Instant(0, 600000), Instant(300, 0),
               Instant(300, 600000), Instant(301, 0)}}

\* -1.0, 0.0 and 300.0
GapThresholds == {int_as_f64(0 - 1), F64Zero(1), int_as_f64(300)}

\* Error entries at 0, 100 ms and 200 ms and entries at 501 s, with and without
\* agent names
MixedEntries ==
    {EntryAt(Instant(0, 0), "Error", Some("a"), None),
     EntryAt(Instant(0, 100000000), "Error", Some("a"), None),
     EntryAt(Instant(0, 200000000), "Error", None, None),
     EntryAt(Instant(501, 0), "Info", None, None),
     EntryAt(Instant(501, 0), "AgentInvocation", Some("b"), None)}

MixedThresholds == {1, 2}

\* entries of two agents and of none, at one instant
ActivityEntries ==
    {EntryAt(Instant(0, 0), "AgentInvocation", Some(n), None) : n \in AgentNames}
    \cup {EntryAt(Instant(0, 0), "Info", None, None)}

ActivityThresholds == {0, 2, 10}

InitPattern ==
    /\ \/ \E es \in SeqsUpTo(BurstEntries, MaxEntries), b \in BurstThresholds, now \in ClockReadings :
              /\ session = create_session_from_entries("bursts", es, now)
              /\ thresholds = PatternAnalyzer_with_thresholds(
                                  b, PatternAnalyzer_new.long_gap_threshold,
                                  PatternAnalyzer_new.agent_activity_threshold)
       \/ \E es \in SeqsUpTo(GapEntries, MaxEntries), g \in GapThresholds, now \in ClockReadings :
              /\ session = create_session_from_entries("gaps", es, now)
              /\ thresholds = PatternAnalyzer_with_thresholds(
                                  PatternAnalyzer_new.error_burst_threshold, g,
                                  PatternAnalyzer_new.agent_activity_threshold)
       \/ \E es \in SeqsUpTo(MixedEntries, MaxEntries), a \in MixedThresholds, now \in ClockReadings :
              /\ session = create_session_from_entries("mixed", es, now)
              /\ thresholds = PatternAnalyzer_with_thresholds(
                                  PatternAnalyzer_new.error_burst_threshold,
                                  PatternAnalyzer_new.long_gap_threshold, a)
       \/ \E es \in SeqsUpTo(ActivityEntries, MaxEntries), a \in ActivityThresholds, now \in ClockReadings :
              /\ session = create_session_from_entries("activity", es, now)
              /\ thresholds = PatternAnalyzer_with_thresholds(
                                  PatternAnalyzer_new.error_burst_threshold,
                                  PatternAnalyzer_new.long_gap_threshold, a)
    /\ patterns = None
    /\ IdleLine /\ IdleFile /\ IdleTiming /\ IdleAgent
    /\ IdlePrevious
    /\ IdleOverflow

CallPatternAnalyze ==
    /\ patterns = None
    /\ \E r \in PatternAnalyzer_analyze(thresholds, session) : patterns' = Some(r)
    /\ UNCHANGED <<line, lineOut, file, fileOut, session, timing, agent_map,
                   lastEntries, agents, thresholds, previous,
                   overflow_checks, panicked>>

NextPattern == CallPatternAnalyze

SpecPattern == InitPattern /\ [][NextPattern]_vars

(***************************************************************************)
(* Properties of the pattern analyzer (SpecPattern)                        *)
(***************************************************************************)
ErrorsAt(es) == {i \in 1..Len(es) : es[i].entry_type = "Error"}

\* the delta between the last and the first entry of the w-th window of three
\* consecutive Error entries
WindowDelta(es, w) ==
    TimeSub(es[NthOf(ErrorsAt(es), w + 2)].timestamp, es[NthOf(ErrorsAt(es), w)].timestamp)

BurstsOf(ps) == SelectSeq(ps, LAMBDA p : p.kind = "ErrorBurst")

\* elapsed > 0 and 3 / elapsed >= threshold
RateReached(elapsed, threshold) ==
    /\ f64_gt(elapsed, F64Zero(1))
    /\ f64_ge(f64_div(int_as_f64(3), elapsed), threshold)

ExactQualifying(es, threshold) ==
    {w \in 1..(Cardinality(ErrorsAt(es)) - 2) :
        RateReached(ExactSeconds(WindowDelta(es, w)), threshold)}

MillisQualifying(es, threshold) ==
    {w \in 1..(Cardinality(ErrorsAt(es)) - 2) :
        RateReached(f64_div(int_as_f64(TruncMillis(WindowDelta(es, w))), int_as_f64(1000)),
                    threshold)}

\* C10 as stated: the ErrorBurst patterns are, in window order, one
\* ErrorBurst{3, elapsed} for each window of three consecutive Error entries
\* whose elapsed = last - first is > 0 with 3 / elapsed >= the threshold.
C10_Original ==
    patterns # None =>
        LET es == session.entries
            bs == BurstsOf(patterns[1].patterns)
            q  == ExactQualifying(es, thresholds.error_burst_threshold)
        IN  /\ Len(bs) = Cardinality(q)
            /\ \A k \in 1..Len(bs) :
                   /\ bs[k].count = 3
                   /\ bs[k].duration_secs = ExactSeconds(WindowDelta(es, NthOf(q, k)))

\* What detect_error_bursts computes instead: elapsed is the last timestamp of
\* the window minus the first cut toward zero to whole milliseconds, in the test
\* and in the duration_secs reported, so a window shorter than a millisecond
\* counts as elapsed 0 and gives no burst.
ErrorBurstsInWholeMillis ==
    patterns # None =>
        LET es == session.entries
            bs == BurstsOf(patterns[1].patterns)
            q  == MillisQualifying(es, thresholds.error_burst_threshold)
        IN  /\ Len(bs) = Cardinality(q)
            /\ \A k \in 1..Len(bs) :
                   /\ bs[k].count = 3
                   /\ bs[k].duration_secs =
                          f64_div(int_as_f64(TruncMillis(WindowDelta(es, NthOf(q, k)))),
                                  int_as_f64(1000))

GapsOf(ps) == SelectSeq(ps, LAMBDA p : p.kind = "LongGap")

PairDelta(es, i) == TimeSub(es[i + 1].timestamp, es[i].timestamp)

\* the delta d cut toward zero to whole milliseconds, in seconds
MillisSeconds(d) == f64_div(int_as_f64(TruncMillis(d)), int_as_f64(1000))

ExactGapPairs(es, threshold) ==
    {i \in 1..(Len(es) - 1) : f64_gt(ExactSeconds(PairDelta(es, i)), threshold)}

MillisGapPairs(es, threshold) ==
    {i \in 1..(Len(es) - 1) : f64_gt(MillisSeconds(PairDelta(es, i)), threshold)}

\* C11 as stated: the LongGap patterns are, in pair order, one LongGap{delta}
\* for each adjacent pair of entries whose delta = later-in-sequence minus
\* earlier-in-sequence timestamp is > the long-gap threshold, and no other.
C11_Original ==
    patterns # None =>
        LET es == session.entries
            gs == GapsOf(patterns[1].patterns)
            q  == ExactGapPairs(es, thresholds.long_gap_threshold)
        IN  /\ Len(gs) = Cardinality(q)
            /\ \A k \in 1..Len(gs) :
                   gs[k].duration_secs = ExactSeconds(PairDelta(es, NthOf(q, k)))

\* C11 (amended): the delta of a pair is the later-in-sequence timestamp minus
\* the earlier-in-sequence one cut toward zero to whole milliseconds, in
\* seconds (the f64 quotient of the milliseconds by 1000.0); the LongGap
\* patterns are, in pair order, one LongGap{that delta} for each adjacent pair
\* whose cut delta is > the long-gap threshold, and no other: none for a cut
\* delta equal to the threshold, none for a negative delta under a
\* non-negative threshold, and as many as there are such pairs.
C11_LongGaps ==
    patterns # None =>
        LET es == session.entries
            gs == GapsOf(patterns[1].patterns)
            q  == MillisGapPairs(es, thresholds.long_gap_threshold)
        IN  /\ Len(gs) = Cardinality(q)
            /\ \A k \in 1..Len(gs) :
                   gs[k].duration_secs = MillisSeconds(PairDelta(es, NthOf(q, k)))
            /\ \A i \in 1..(Len(es) - 1) :
                   (/\ f64_ge(thresholds.long_gap_threshold, F64Zero(1))
                    /\ Earlier(es[i + 1].timestamp, es[i].timestamp)) => i \notin q
            /\ \A i \in 1..(Len(es) - 1) :
                   MillisSeconds(PairDelta(es, i)) = thresholds.long_gap_threshold
                       => i \notin q

\* entries at 0, 301 s, 0, 301 s under the threshold 300: the two forward pairs
\* give LongGap{301.0} each, the backward pair between them gives none
C11_Witness ==
    /\ patterns # None
    /\ thresholds.long_gap_threshold = int_as_f64(300)
    /\ Len(session.entries) = 4
    /\ session.entries[1].timestamp = Instant(0, 0)
    /\ session.entries[2].timestamp = Instant(301, 0)
    /\ session.entries[3].timestamp = Instant(0, 0)
    /\ session.entries[4].timestamp = Instant(301, 0)
    /\ GapsOf(patterns[1].patterns) = <<LongGap(int_as_f64(301)), LongGap(int_as_f64(301))>>

ActivityOf(ps) == SelectSeq(ps, LAMBDA p : p.kind = "AgentActivity")

\* the number of entries of es that carry the agent name n
CarriedCount(es, n) == Cardinality({i \in 1..Len(es) : es[i].agent_name = Some(n)})

CarriedNames(es) == {es[i].agent_name[1] : i \in {j \in 1..Len(es) : es[j].agent_name # None}}

\* C12: the AgentActivity patterns are exactly one AgentActivity{agent, count}
\* for each agent name carried by at least threshold entries of the session,
\* count being the number of entries that carry it; no pattern names an agent
\* below the threshold or a name no entry carries, also under threshold 0.
C12_AgentActivity ==
    patterns # None =>
        LET es == session.entries
            as == ActivityOf(patterns[1].patterns)
            th == thresholds.agent_activity_threshold
        IN  /\ \A n \in CarriedNames(es) :
                   CarriedCount(es, n) >= th =>
                       /\ Cardinality({k \in 1..Len(as) : as[k].agent = n}) = 1
                       /\ \E k \in 1..Len(as) : as[k] = AgentActivity(n, CarriedCount(es, n))
            /\ \A k \in 1..Len(as) :
                   /\ as[k].agent \in CarriedNames(es)
                   /\ as[k].count = CarriedCount(es, as[k].agent)
                   /\ as[k].count >= th
                   /\ as[k].count > 0

\* entries of a, a and b under the threshold 2: one AgentActivity{a, 2} and
\* none for b
C12_Witness ==
    /\ patterns # None
    /\ thresholds.agent_activity_threshold = 2
    /\ Len(session.entries) = 3
    /\ session.entries[1].agent_name = Some("a")
    /\ session.entries[2].agent_name = Some("b")
    /\ session.entries[3].agent_name = Some("a")
    /\ ActivityOf(patterns[1].patterns) = <<AgentActivity("a", 2)>>

MarkersOf(ps) == SelectSeq(ps, LAMBDA p : p.kind = "NoAgentActivity")

\* C13: a session with at least one entry and no entry carrying an agent name
\* gives, under any thresholds, exactly one NoAgentActivity marker and no
\* AgentActivity pattern.
C13_NoAgentMarker ==
    (/\ patterns # None
     /\ session.entries # <<>>
     /\ \A i \in 1..Len(session.entries) : session.entries[i].agent_name = None)
    => /\ Len(MarkersOf(patterns[1].patterns)) = 1
       /\ ActivityOf(patterns[1].patterns) = <<>>

\* two entries without agent name under the activity threshold 0: the marker
\* alone
C13_Witness ==
    /\ patterns # None
    /\ thresholds.agent_activity_threshold = 0
    /\ Len(session.entries) = 2
    /\ \A i \in 1..2 : session.entries[i].agent_name = None
    /\ patterns[1].patterns = <<NoAgentActivity>>

KindRank(p) ==
    CASE p.kind = "ErrorBurst" -> 1
      [] p.kind = "LongGap" -> 2
      [] p.kind = "AgentActivity" -> 3
      [] p.kind = "NoAgentActivity" -> 4

\* C14: in the list PatternAnalyzer::analyze returns the ErrorBurst patterns
\* come before the LongGap patterns, these before the AgentActivity patterns,
\* these before the NoAgentActivity marker, and the list is the concatenation
\* of the outputs of the four detectors in that order, nothing added or dropped.
C14_DetectorOrder ==
    patterns # None =>
        LET ps == patterns[1].patterns
            es == session.entries
        IN  /\ \A i, j \in 1..Len(ps) : i < j => KindRank(ps[i]) <= KindRank(ps[j])
            /\ BurstsOf(ps) = detect_error_bursts(thresholds, es)
            /\ GapsOf(ps) = detect_long_gaps(thresholds, es)
            /\ ActivityOf(ps) \in detect_agent_activity(thresholds, es)
            /\ MarkersOf(ps) = detect_no_agent_activity(thresholds, es)
            /\ ps = BurstsOf(ps) \o GapsOf(ps) \o ActivityOf(ps) \o MarkersOf(ps)

\* Error entries of a at 0 and 100 ms, an Error entry at 200 ms and an entry at
\* 501 s under the activity threshold 2: a burst, then a gap, then the activity
\* of a
C14_Witness ==
    /\ patterns # None
    /\ thresholds.agent_activity_threshold = 2
    /\ Len(session.entries) = 4
    /\ session.entries[4].timestamp = Instant(501, 0)
    /\ patterns[1].patterns =
           <<ErrorBurst(3, Seconds(200)), LongGap(Seconds(500800)), AgentActivity("a", 2)>>

(***************************************************************************)
(* The three analyzers called, each up to twice, on one session            *)
(***************************************************************************)
MaxSessionEntries == 3

\* an invocation of a with a duration of 100 ms and one of 2^63 ms, an
\* invocation of b without a duration 10 s later, an entry at the time of the
\* first and an Error entry 400 s later
AnalyzerEntries ==
    {EntryAt(Instant(0, 0), "AgentInvocation", Some("a"), Some(U64(100))),
     EntryAt(Instant(0, 0), "AgentInvocation", Some("a"), Some(<<0, 0, 0, 32768>>)),
     EntryAt(Instant(10, 0), "AgentInvocation", Some("b"), None),
     EntryAt(Instant(0, 0), "Info", None, None),
     EntryAt(Instant(400, 0), "Error", None, None)}

AnalyzerThresholds == {1, 10}

InitAnalyzers ==
    /\ \E es \in SeqsUpTo(AnalyzerEntries, MaxSessionEntries), now \in ClockReadings :
           session = create_session_from_entries("session", es, now)
    /\ \E a \in AnalyzerThresholds :
           thresholds = PatternAnalyzer_with_thresholds(
                            PatternAnalyzer_new.error_burst_threshold,
                            PatternAnalyzer_new.long_gap_threshold, a)
    /\ agent_map \in EarlierMaps
    /\ lastEntries = None
    /\ timing = None /\ agents = None /\ patterns = None
    /\ IdleLine /\ IdleFile
    /\ IdlePrevious
    /\ AnyBuild

RunTimingAnalyze ==
    /\ previous.timing = None /\ ~panicked
    /\ timing' = Some(TimingAnalyzer_analyze(session))
    /\ previous' = [previous EXCEPT !.timing = timing]
    /\ UNCHANGED <<line, lineOut, file, fileOut, session, agent_map,
                   lastEntries, agents, thresholds, patterns,
                   overflow_checks, panicked>>

\* the state after an analyze that keeps the map its process_entries gave
Retained(outcome) ==
    /\ agent_map' = outcome.value
    /\ panicked' = outcome.panicked
    /\ IF outcome.panicked THEN UNCHANGED <<agents, previous>>
       ELSE /\ \E v \in get_all_stats(outcome.value) :
                   agents' = Some([ok |-> TRUE, stats |-> v])
            /\ previous' = [previous EXCEPT !.agents = agents]

\* an analyze that keeps what it processed in the receiver's map
RunAgentAnalyzeRetaining ==
    /\ previous.agents = None /\ ~panicked
    /\ Retained(process_entries(agent_map, session.entries, overflow_checks))
    /\ UNCHANGED <<line, lineOut, file, fileOut, session, timing,
                   lastEntries, thresholds, patterns, overflow_checks>>

RunAgentAnalyze ==
    /\ previous.agents = None /\ ~panicked
    /\ \E r \in AgentAnalyzer_analyze(session, overflow_checks) :
           IF r.panicked
           THEN panicked' = TRUE /\ UNCHANGED <<agent_map, agents, previous>>
           ELSE /\ agents' = Some(r.value)
                /\ previous' = [previous EXCEPT !.agents = agents]
                /\ UNCHANGED <<agent_map, panicked>>
    /\ UNCHANGED <<line, lineOut, file, fileOut, session, timing,
                   lastEntries, thresholds, patterns, overflow_checks>>

RunPatternAnalyze ==
    /\ previous.patterns = None /\ ~panicked
    /\ \E r \in PatternAnalyzer_analyze(thresholds, session) : patterns' = Some(r)
    /\ previous' = [previous EXCEPT !.patterns = patterns]
    /\ UNCHANGED <<line, lineOut, file, fileOut, session, timing, agent_map,
                   lastEntries, agents, thresholds,
                   overflow_checks, panicked>>

NextAnalyzers == RunTimingAnalyze \/ RunAgentAnalyze \/ RunPatternAnalyze

SpecAnalyzers == InitAnalyzers /\ [][NextAnalyzers]_vars

SameElements(p, q) ==
    /\ Len(p) = Len(q)
    /\ {p[i] : i \in 1..Len(p)} = {q[i] : i \in 1..Len(q)}

\* the TimingStats the entries es give: the latest timestamp minus the
\* earliest and the mean of the adjacent deltas, in whole milliseconds
TimingOf(es) ==
    [ok |-> TRUE,
     stats |-> [total_duration_secs |->
                    IF es = <<>> THEN F64Zero(1)
                    ELSE MillisSeconds(
                             TimeSub(es[CHOOSE j \in 1..Len(es) : IsLatest(es, j)].timestamp,
                                     es[CHOOSE i \in 1..Len(es) : IsEarliest(es, i)].timestamp)),
                entry_count |-> Len(es),
                avg_time_between_entries |->
                    IF Len(es) < 2 THEN F64Zero(1)
                    ELSE f64_div(f64_div(int_as_f64(SumTruncMillis(es, 1)), int_as_f64(1000)),
                                 int_as_f64(Len(es) - 1))]]

\* the AgentStats record the entries es give the agent n
AgentRecordOf(es, n) ==
    [name |-> n,
     invocation_count |-> U32(CarriedCount(es, n)),
     total_duration_ms |-> SubSeq(SumDurations(es, Carrying(es, n)), 1, 4),
     avg_duration_ms |-> AverageThrough(AgentStats_new(n), es, n, Len(es))]

\* the durations of some agent of es add up beyond 64 bits
SessionOverflows(es) == \E n \in CarriedNames(es) : SumDurations(es, Carrying(es, n))[5] # 0

\* the bursts and the gaps the entries es give under the thresholds th, the
\* deltas in whole milliseconds
BurstsFrom(es, th) ==
    [k \in 1..Cardinality(MillisQualifying(es, th.error_burst_threshold)) |->
        ErrorBurst(3, MillisSeconds(WindowDelta(es,
                          NthOf(MillisQualifying(es, th.error_burst_threshold), k))))]

GapsFrom(es, th) ==
    [k \in 1..Cardinality(MillisGapPairs(es, th.long_gap_threshold)) |->
        LongGap(MillisSeconds(PairDelta(es, NthOf(MillisGapPairs(es, th.long_gap_threshold), k))))]

\* one AgentActivity for each agent carried by at least the threshold's number
\* of entries
ActivityFrom(es, th) ==
    {AgentActivity(n, CarriedCount(es, n)) :
        n \in {m \in CarriedNames(es) : CarriedCount(es, m) >= th.agent_activity_threshold}}

MarkerFrom(es) == IF es # <<>> /\ CarriedNames(es) = {} THEN <<NoAgentActivity>> ELSE <<>>

C16_AlwaysOk ==
    /\ ~panicked
    /\ timing # None =>
           /\ timing[1].ok
           /\ session.entries = <<>> =>
                  /\ timing[1].stats.total_duration_secs = F64Zero(1)
                  /\ timing[1].stats.entry_count = 0
                  /\ timing[1].stats.avg_time_between_entries = F64Zero(1)
    /\ agents # None =>
           /\ agents[1].ok
           /\ session.entries = <<>> => agents[1].stats = <<>>
    /\ patterns # None =>
           /\ patterns[1].ok
           /\ session.entries = <<>> => patterns[1].patterns = <<>>

\* what the records rs say is what the entries es alone give: the count of the
\* entries that carry the name and the sum of their durations in 64 bits
FromSessionOnly(rs, es) ==
    /\ {rs[k].name : k \in 1..Len(rs)} = CarriedNames(es)
    /\ \A k \in 1..Len(rs) :
           /\ rs[k].invocation_count = U32(CarriedCount(es, rs[k].name))
           /\ rs[k].total_duration_ms =
                  SubSeq(SumDurations(es, Carrying(es, rs[k].name)), 1, 4)

\* C17: every analyze call leaves the session and the analyzer's own state
\* (the agent analyzer's map, the pattern analyzer's thresholds) as they were,
\* and what AgentAnalyzer::analyze returns comes from the session alone: not
\* from the statistics the analyzer accumulated earlier, nor from an earlier
\* analyze call.
C17_Frame ==
    /\ [](/\ agents # None => FromSessionOnly(agents[1].stats, session.entries)
          /\ previous.agents # None =>
                 FromSessionOnly(previous.agents[1].stats, session.entries))
    /\ [][/\ session' = session
          /\ agent_map' = agent_map
          /\ lastEntries' = lastEntries
          /\ thresholds' = thresholds]_vars

\* an analyzer that holds statistics of b from before, called twice on a
\* session with two invocations of b: both results count two invocations and
\* the analyzer's map is the one from before
C17_Witness ==
    /\ agent_map # EmptyMap /\ "b" \in DOMAIN agent_map
    /\ agent_map["b"].invocation_count = U32(1)
    /\ CarriedCount(session.entries, "b") = 2
    /\ previous.agents # None /\ agents # None
    /\ \E k \in 1..Len(agents[1].stats) :
           agents[1].stats[k].name = "b" /\ agents[1].stats[k].invocation_count = U32(2)
    /\ \E k \in 1..Len(previous.agents[1].stats) :
           /\ previous.agents[1].stats[k].name = "b"
           /\ previous.agents[1].stats[k].invocation_count = U32(2)

(***************************************************************************)
(* Further properties of the line parser (SpecLine)                        *)
(***************************************************************************)
\* C18: every entry the line parser gives has no agent name and no duration,
\* whatever the level keyword (AGENT too) and whatever the message.
C18_NoAgentNoDuration ==
    (lineOut # None /\ lineOut[1].ok) =>
        /\ lineOut[1].entry.agent_name = None
        /\ lineOut[1].entry.duration_ms = None

\* "[2025-10-18T14:30:45Z] agent:agent=x 5ms" parsed: an AgentInvocation entry
\* without agent name and without duration
C18_Witness ==
    /\ line = <<"[">> \o TsRfc
              \o <<"]", " ", "a","g","e","n","t", ":", "a","g","e","n","t","=","x"," ","5","m","s">>
    /\ lineOut # None /\ lineOut[1].ok
    /\ lineOut[1].entry.entry_type = "AgentInvocation"
    /\ lineOut[1].entry.message = <<"a","g","e","n","t","=","x"," ","5","m","s">>
    /\ lineOut[1].entry.agent_name = None
    /\ lineOut[1].entry.duration_ms = None

(***************************************************************************)
(* Further properties of the file parser (SpecFile)                        *)
(***************************************************************************)
FailedReads(f) == {i \in 1..Len(f.reads) : ~f.reads[i].ok}

\* C19: parse_log_file fails in two cases and no other: the file does not open,
\* which gives FileNotFound with the path asked for, or a line fails to read,
\* which gives Io at once, with none of the entries of the lines before it;
\* MalformedEntry and InvalidTimestamp never come out of parse_log_file.
C19_FileErrors ==
    fileOut # None =>
        LET r == fileOut[1].result
        IN  /\ r.ok <=> (file.exists /\ FailedReads(file) = {})
            /\ ~file.exists =>
                   r = [ok |-> FALSE, err |-> [kind |-> "FileNotFound", path |-> file.path]]
            /\ (file.exists /\ FailedReads(file) # {}) =>
                   /\ r = [ok |-> FALSE, err |-> [kind |-> "Io"]]
                   /\ \A k \in 1..Len(fileOut[1].warnings) :
                          fileOut[1].warnings[k].line < NthOf(FailedReads(file), 1)
            /\ ~r.ok => r.err.kind \notin {"MalformedEntry", "InvalidTimestamp"}

\* a good line, a line that fails to read and a line without bracket: Io, no
\* entry and no warning
C19_Witness ==
    /\ file.exists /\ Len(file.reads) = 3
    /\ file.reads[1] = [ok |-> TRUE, text |-> GoodLineInfo]
    /\ ~file.reads[2].ok
    /\ file.reads[3] = [ok |-> TRUE, text |-> NoBracketLine]
    /\ fileOut # None
    /\ fileOut[1].result = [ok |-> FALSE, err |-> [kind |-> "Io"]]
    /\ fileOut[1].warnings = <<>>

\* the lines parse_log_file gets to: all of them, or those before the first one
\* that fails to read
LinesReached(f) ==
    IF FailedReads(f) = {} THEN 1..Len(f.reads)
    ELSE 1..(NthOf(FailedReads(f), 1) - 1)

WarnedAt(f) ==
    {i \in LinesReached(f) :
        Trim(f.reads[i].text) # <<>> /\ ~parse_log_entry(f.reads[i].text).ok}

\* C20: parse_log_file writes one warning for each non-blank line the line
\* parser rejects, none for a blank line or a line that parses, in file order;
\* a warning carries the position of its line counted from 1 over all the
\* lines of the file, the blank ones too, and the line parser's error.
C20_Warnings ==
    (fileOut # None /\ file.exists) =>
        LET ws == fileOut[1].warnings
        IN  /\ Len(ws) = Cardinality(WarnedAt(file))
            /\ \A k \in 1..Len(ws) :
                   /\ ws[k].line = NthOf(WarnedAt(file), k)
                   /\ ws[k].reason = parse_log_entry(file.reads[ws[k].line].text).err

\* a blank line, a line without bracket and a line with a bad timestamp: the
\* warnings name the lines 2 and 3
C20_Witness ==
    /\ file.exists /\ Len(file.reads) = 3
    /\ file.reads[1] = [ok |-> TRUE, text |-> BlankLine]
    /\ file.reads[2] = [ok |-> TRUE, text |-> NoBracketLine]
    /\ file.reads[3] = [ok |-> TRUE, text |-> BadTimestampLine]
    /\ fileOut # None /\ fileOut[1].result.ok
    /\ Len(fileOut[1].warnings) = 2
    /\ fileOut[1].warnings[1].line = 2
    /\ fileOut[1].warnings[1].reason.kind = "MalformedEntry"
    /\ fileOut[1].warnings[2].line = 3
    /\ fileOut[1].warnings[2].reason.kind = "InvalidTimestamp"

(***************************************************************************)
(* Further properties of the stateful agent analyzer (SpecAgentState)      *)
(***************************************************************************)
\* what one process_entries call on the entries es adds to the statistics
BatchEffect(es) ==
    /\ DOMAIN agent_map' = DOMAIN agent_map \cup CarriedNames(es)
    /\ \A n \in DOMAIN agent_map' :
           LET old == IF n \in DOMAIN agent_map THEN agent_map[n] ELSE AgentStats_new(n)
           IN  /\ agent_map'[n].name = n
               /\ agent_map'[n].invocation_count \o <<0>> =
                      AddLimbs(old.invocation_count, U32(CarriedCount(es, n)), 0)
               /\ agent_map'[n].total_duration_ms \o <<0>> =
                      SubSeq(AddLimbs(old.total_duration_ms \o <<0>>,
                                      SumDurations(es, Carrying(es, n)), 0),
                             1, 5)

NothingKept(map) ==
    /\ get_all_stats(map) = {<<>>}
    /\ \A n \in AgentNames : get_agent_stats(map, n) = None

\* C21 as stated: a new analyzer holds no statistics; each process_entries call
\* adds, for each agent, the number of entries of the call that carry its name
\* to invocation_count and the sum of their durations to total_duration_ms, on
\* top of what the calls since the last clear left; right after clear
\* get_agent_stats gives nothing for any name and get_all_stats is empty.  So
\* the statistics are those of the entries processed since the last clear.
C21_SinceLastClear ==
    /\ NothingKept(agent_map)
    /\ [][/\ \A es \in SeqsUpTo(AgentEntries, MaxBatch) :
                 CallProcessEntries(es) => BatchEffect(es)
          /\ CallClear => NothingKept(agent_map')]_vars

(***************************************************************************)
(* main.rs: handle_analyze: the directory is listed, its .log files are     *)
(* parsed, their entries gathered into one session, the session analysed   *)
(***************************************************************************)
MaxFileLines == 2

AgentLine ==
    <<"[">> \o TsRfc
    \o <<"]", " ", "a","g","e","n","t", ":", "a","g","e","n","t","=","x"," ","5","m","s">>

\* a line stamped with second 60: the leap second after 14:30:59, 14 s after the
\* other lines' time
LeapLine ==
    <<"[", "2","0","2","5","-","1","0","-","1","8","T","1","4",":","3","0",":","6","0","Z",
      "]", " ", "E","R","R","O","R", ":", " ", "x">>

LogReads ==
    {[ok |-> TRUE, text |-> l] : l \in {AgentLine, GoodLineError, NoBracketLine, LeapLine}}
    \cup {[ok |-> FALSE]}

LogFiles ==
    {[path |-> "a.log", exists |-> FALSE]}
    \cup {[path |-> "a.log", exists |-> TRUE, reads |-> rs] :
             rs \in SeqsUpTo(LogReads, MaxFileLines)}

\* no file, one file or two files
LogFileLists == {<<>>} \cup {<<f>> : f \in LogFiles} \cup {<<f, g>> : f, g \in LogFiles}

\* the loop over log_files: the entries of the files that parse, in order
RECURSIVE GatherEntries(_, _)
GatherEntries(files, all_entries) ==
    IF files = <<>> THEN all_entries
    ELSE LET r == parse_log_file(Head(files)).result
         IN  GatherEntries(Tail(files),
                           IF r.ok THEN all_entries \o r.entries ELSE all_entries)

\* logs_dir: a path where nothing is, a path read_dir fails on (a regular
\* file, a directory that may not be read), or a directory with its .log
\* files, those that pass the filter of read_dir's entries
LogsDirs ==
    {[exists |-> FALSE], [exists |-> TRUE, read_dir |-> [ok |-> FALSE]]}
    \cup {[exists |-> TRUE, read_dir |-> [ok |-> TRUE, log_files |-> fs]] : fs \in LogFileLists}

InitPipeline ==
    /\ file \in LogsDirs
    /\ fileOut = None
    /\ session = NoSession
    /\ IdleLine /\ IdleTiming /\ IdleAgent /\ IdlePattern
    /\ IdlePrevious
    /\ AnyBuild

\* the session analysed: the timing analysis, then the agent analysis, whose
\* panic ends the run, then the pattern analysis
Analysed(s, r) ==
    /\ session' = s
    /\ timing' = Some(TimingAnalyzer_analyze(s))
    /\ IF r.panicked
       THEN panicked' = TRUE /\ UNCHANGED <<agents, thresholds, patterns>>
       ELSE /\ agents' = Some(r.value)
            /\ thresholds' = PatternAnalyzer_new
            /\ \E p \in PatternAnalyzer_analyze(PatternAnalyzer_new, s) : patterns' = Some(p)
            /\ UNCHANGED panicked

\* handle_analyze from the list of .log files on
AnalyzeLogFiles(log_files, all_entries) ==
    /\ fileOut' = Some([result |-> [ok |-> TRUE], all_entries |-> all_entries])
    /\ IF log_files = <<>> \/ all_entries = <<>>
       THEN UNCHANGED <<session, timing, agents, thresholds, patterns, panicked>>
       ELSE \E now \in ClockReadings :
              \E s \in {create_session_from_entries("aggregate", all_entries, now)} :
                \E r \in AgentAnalyzer_analyze(s, overflow_checks) : Analysed(s, r)

\* handle_analyze returning the error err before it has a list of files
FailedWith(err) ==
    /\ fileOut' = Some([result |-> [ok |-> FALSE, err |-> err], all_entries |-> <<>>])
    /\ UNCHANGED <<session, timing, agents, thresholds, patterns, panicked>>

CallHandleAnalyze ==
    /\ fileOut = None /\ ~panicked
    /\ IF ~file.exists THEN FailedWith([kind |-> "FileNotFound"])
       ELSE IF ~file.read_dir.ok THEN FailedWith([kind |-> "Io"])
       ELSE AnalyzeLogFiles(file.read_dir.log_files,
                            GatherEntries(file.read_dir.log_files, <<>>))
    /\ UNCHANGED <<line, lineOut, file, agent_map, lastEntries, previous, overflow_checks>>

NextPipeline == CallHandleAnalyze

SpecPipeline == InitPipeline /\ [][NextPipeline]_vars

(***************************************************************************)
(* Properties of the whole run (SpecPipeline)                              *)
(***************************************************************************)
\* C22: when the session is built from what parse_log_file gave for one or
\* more files and has at least one entry, AgentAnalyzer::analyze gives an empty
\* collection and PatternAnalyzer::analyze gives no AgentActivity pattern and
\* exactly one NoAgentActivity marker, whatever the files hold.
C22_NoAgentsEndToEnd ==
    (fileOut # None /\ fileOut[1].all_entries # <<>>) =>
        /\ session.entries = fileOut[1].all_entries
        /\ agents # None /\ agents[1].ok /\ agents[1].stats = <<>>
        /\ patterns # None /\ patterns[1].ok
        /\ ActivityOf(patterns[1].patterns) = <<>>
        /\ Len(MarkersOf(patterns[1].patterns)) = 1

\* a file whose second line fails to read and a file with two agent lines:
\* a session of the two entries of the second file, no AgentStats, the marker
C22_Witness ==
    /\ file.exists /\ file.read_dir.ok /\ Len(file.read_dir.log_files) = 2
    /\ file.read_dir.log_files[1].exists
    /\ file.read_dir.log_files[1].reads = <<[ok |-> TRUE, text |-> AgentLine], [ok |-> FALSE]>>
    /\ file.read_dir.log_files[2].exists
    /\ file.read_dir.log_files[2].reads =
           <<[ok |-> TRUE, text |-> AgentLine], [ok |-> TRUE, text |-> AgentLine]>>
    /\ fileOut # None
    /\ Len(session.entries) = 2
    /\ \A i \in 1..2 : session.entries[i].entry_type = "AgentInvocation"
    /\ agents # None /\ agents[1].stats = <<>>
    /\ patterns # None /\ patterns[1].patterns = <<NoAgentActivity>>

WholeMillisDeltas(es) ==
    \A i \in 1..(Len(es) - 1) : SubMilliNanos(PairDelta(es, i)) = 0

\* the delta d, in milliseconds, lies strictly between lo and hi
MillisBetween(d, lo, hi) ==
    /\ FloorMillis(d) < hi
    /\ FloorMillis(d) > lo \/ (FloorMillis(d) = lo /\ SubMilliNanos(d) > 0)

C24_MarkerIff ==
    patterns # None =>
        LET ps == patterns[1].patterns
            es == session.entries
        IN  /\ (MarkersOf(ps) # <<>>) <=>
                   (es # <<>> /\ \A i \in 1..Len(es) : es[i].agent_name = None)
            /\ Len(MarkersOf(ps)) <= 1
            /\ ~(MarkersOf(ps) # <<>> /\ ActivityOf(ps) # <<>>)
            /\ es = <<>> => ps = <<>>

\* an entry of a and an entry without agent name under the activity threshold
\* 10: neither the marker nor an AgentActivity pattern
C24_Witness ==
    /\ patterns # None
    /\ thresholds.agent_activity_threshold = 10
    /\ Len(session.entries) = 2
    /\ session.entries[1].agent_name = Some("a")
    /\ session.entries[2].agent_name = None
    /\ patterns[1].patterns = <<>>

====
